---- MODULE Spec2Model ----
(***************************************************************************)
(* Cash-flow report pipeline of tavrikaBot: cashflow.py builds a statement *)
(* (opening balance, movement sections, closing balance) from the rows an  *)
(* OLAP fetch returns; bot.py drives fetch -> build for one request.       *)
(*                                                                         *)
(* Conventions of the model                                                *)
(*  - a Python str that the code inspects character by character (account *)
(*    names) is a tuple of one-character strings; Cyrillic text is written *)
(*    in Latin transliteration ("Glavnaya kassa");                         *)
(*  - a label the code only compares for equality (activity type, category *)
(*    label, row captions) is a TLA+ string, None is the string None;      *)
(*  - a nullable number (a pandas float cell) is <<>> for NaN and <<v>>    *)
(*    for the number v; amounts are integers (kopecks);                    *)
(*  - a fetched snapshot is [columns, data]: the keys its JSON rows carry  *)
(*    and the rows; a key a row lacks reads NaN / None in that row.        *)
(***************************************************************************)
EXTENDS Integers, Sequences, FiniteSets, TLC

VARIABLES
    pc,             \* position of the request inside cashflow_command
    day_mode,       \* bot.py: day_mode
    raw_json,       \* snapshot of the period, or of the selected day
    raw_json_prev,  \* snapshot of the previous day (day mode only)
    res,            \* summary statement (build_cashflow_tables[_for_day])
    det,            \* detailed statement (build_cashflow_detailed_table[_for_day])
    error,          \* the exception raised inside the request, "none" so far
    args,           \* context.args: the date arguments of the command
    date_from,      \* bot.py: date_from
    date_to,        \* bot.py: date_to
    fetched,        \* the intervals <<date_from, date_to>> passed to the fetches
    files,          \* the spreadsheet files on disk: path -> content
    locked,         \* the target paths another process held open when written
    workbook_path,  \* path returned by a call of export_excel_cashflow
    excel_path,     \* path returned by export_to_excel(res)
    excel_detailed_path,    \* path returned by export_to_excel(det, ...)
    message_text,   \* the chat message built from the summary statement
    attempt,        \* loop variable of the running safe_reply_* call
    outcomes,       \* how each attempt of the running safe_reply_* call ended
    waits,          \* the asyncio.sleep() delays of the running safe_reply_* call
    sent,           \* what reached the chat, in order
    requests,       \* two commands handled at once: the locals of each handler
    table,          \* the frame returned by build_excel_cashflow_table
    tree_text       \* the lines returned by build_full_cashflow_tree

handler_vars == <<args, date_from, date_to, fetched>>
export_vars == <<files, locked, workbook_path, excel_path, excel_detailed_path>>
reply_vars == <<attempt, outcomes, waits>>
delivery_vars == <<export_vars, message_text, reply_vars, sent>>
layout_vars == <<table, tree_text>>
vars == <<pc, day_mode, raw_json, raw_json_prev, res, det, error, handler_vars, delivery_vars,
          requests, layout_vars>>

---------------------------------------------------------------------------
(* Values *)

NaN == <<>>
Num(v) == <<v>>
IsNa(x) == x = <<>>
None == "None"

RU_ACCOUNT_MAIN == <<"G","l","a","v","n","a","y","a"," ","k","a","s","s","a">>
RU_ACCOUNT_TRADES == <<"T","o","r","g","o","v","y","e"," ","k","a","s","s","y">>
EN_ACCOUNT_MAIN == <<"M","a","i","n"," ","c","a","s","h"," ","r","e","g","i","s","t","e","r">>
EN_ACCOUNT_TRADES == <<"T","r","a","d","e"," ","c","a","s","h"," ","r","e","g","i","s","t","e","r","s">>
NoAccount == <<>>

ACCOUNTS == <<RU_ACCOUNT_MAIN, RU_ACCOUNT_TRADES>>

\* ACCOUNT_NAME_MAP.get(val): exact key, None when absent.
ACCOUNT_NAME_MAP(val) ==
    CASE val = EN_ACCOUNT_MAIN -> RU_ACCOUNT_MAIN
      [] val = EN_ACCOUNT_TRADES -> RU_ACCOUNT_TRADES
      [] val = RU_ACCOUNT_MAIN -> RU_ACCOUNT_MAIN
      [] val = RU_ACCOUNT_TRADES -> RU_ACCOUNT_TRADES
      [] OTHER -> NoAccount

CAT_VYRUCHKA == "Vyruchka"
CAT_ZAIM == "Zaim"
CAT_PEREMESHCHENIE == "Vnutrennee peremeshchenie"
CAT_OPLATA == "Oplata schetov"

\* seeded fault: the lookup ignores the case of the first letter
CATEGORY_RU_MAP_casefold(label) ==
    CASE label = "Internal transfer" -> CAT_PEREMESHCHENIE
      [] label = "Invoices payment" -> CAT_OPLATA
      [] label \in {"Sales", "sales"} -> CAT_VYRUCHKA
      [] label = "Revenue" -> CAT_VYRUCHKA
      [] label = "Loan" -> CAT_ZAIM
      [] label = "Loans" -> CAT_ZAIM
      [] label = CAT_PEREMESHCHENIE -> CAT_PEREMESHCHENIE
      [] label = CAT_VYRUCHKA -> CAT_VYRUCHKA
      [] OTHER -> label

\* CATEGORY_RU_MAP.get(label, str(label)): exact key, the label itself otherwise.
CATEGORY_RU_MAP(label) ==
    CASE label = "Internal transfer" -> CAT_PEREMESHCHENIE
      [] label = "Invoices payment" -> CAT_OPLATA
      [] label = "Sales" -> CAT_VYRUCHKA
      [] label = "Revenue" -> CAT_VYRUCHKA
      [] label = "Loan" -> CAT_ZAIM
      [] label = "Loans" -> CAT_ZAIM
      [] label = CAT_PEREMESHCHENIE -> CAT_PEREMESHCHENIE
      [] label = CAT_VYRUCHKA -> CAT_VYRUCHKA
      [] OTHER -> label

CATEGORY_RU_MAP_KEYS ==
    {"Internal transfer", "Invoices payment", "Sales", "Revenue", "Loan", "Loans",
     CAT_PEREMESHCHENIE, CAT_VYRUCHKA}

OPERATIONAL == "OPERATIONAL"
FINANCE == "FINANCE"
FLOW_TYPES == <<OPERATIONAL, FINANCE>>

LABEL_START == "Ostatok na nachalo"
LABEL_END == "Ostatok na konec"
LABEL_OPERATIONAL == "Operacionnaya deyatelnost"
LABEL_FINANCE == "Finansovaya deyatelnost"
INOUT_IN == "Prihod"
INOUT_OUT == "Rashod"

type_label(flow_type) ==
    IF flow_type = OPERATIONAL THEN LABEL_OPERATIONAL ELSE LABEL_FINANCE

\* Column names of the fetched rows.
ACC_COL == "Account.Name"
NORM_COL == "AccountNorm"
IN_COL == "Sum.Incoming"
OUT_COL == "Sum.Outgoing"
FINAL_COL == "FinalBalance.Money"
START_COL == "StartBalance.Money"
CAT_COL == "CashFlowCategory.HierarchyLevel1"
TYPE_COL == "CashFlowCategory.Type"

NUMERIC_COLS == {IN_COL, OUT_COL, FINAL_COL, START_COL}
LABEL_COLS == {CAT_COL, TYPE_COL}
REQUIRED_COLS == NUMERIC_COLS \cup LABEL_COLS
ALL_COLS == REQUIRED_COLS \cup {ACC_COL}

---------------------------------------------------------------------------
(* Python str operations used by map_name *)

UPPER == <<"A","B","C","D","E","F","G","H","I","J","K","L","M","N","O","P","Q","R","S","T","U","V","W","X","Y","Z">>
LOWER == <<"a","b","c","d","e","f","g","h","i","j","k","l","m","n","o","p","q","r","s","t","u","v","w","x","y","z">>

lower_char(c) ==
    IF \E i \in DOMAIN UPPER : UPPER[i] = c
    THEN LOWER[CHOOSE i \in DOMAIN UPPER : UPPER[i] = c]
    ELSE c

lower(s) == [i \in DOMAIN s |-> lower_char(s[i])]

strip(s) ==
    LET keep == {i \in DOMAIN s : s[i] # " "}
    IN  IF keep = {} THEN <<>>
        ELSE LET lo == CHOOSE i \in keep : \A j \in keep : i <= j
                 hi == CHOOSE i \in keep : \A j \in keep : j <= i
             IN  SubSeq(s, lo, hi)

\* frag in s
contains(s, frag) ==
    \E k \in 0 .. (Len(s) - Len(frag)) :
        \A j \in 1 .. Len(frag) : s[k + j] = frag[j]

FRAG_MAIN_RU == <<"g","l","a","v","n","a","y","a"," ","k","a","s","s">>
FRAG_MAIN_EN == <<"m","a","i","n"," ","c","a","s","h"," ","r","e","g","i","s","t","e","r">>
FRAG_TRADES_RU == <<"t","o","r","g","o","v">>
FRAG_TRADES_EN == <<"t","r","a","d","e"," ","c","a","s","h"," ","r","e","g","i","s","t","e","r">>
FRAG_TRADES_EN_PL == <<"t","r","a","d","e"," ","c","a","s","h"," ","r","e","g","i","s","t","e","r","s">>

\* _normalize_accounts.map_name; a None or empty name is <<>>.
\* matching by the exact keys of ACCOUNT_NAME_MAP alone
map_name_exact(val) == ACCOUNT_NAME_MAP(val)

map_name(val) ==
    LET s == lower(strip(val))
    IN  IF s = <<>> THEN NoAccount
        ELSE IF contains(s, FRAG_MAIN_RU) \/ contains(s, FRAG_MAIN_EN)
             THEN RU_ACCOUNT_MAIN
        ELSE IF contains(s, FRAG_TRADES_RU) \/ contains(s, FRAG_TRADES_EN)
                \/ contains(s, FRAG_TRADES_EN_PL)
             THEN RU_ACCOUNT_TRADES
        ELSE ACCOUNT_NAME_MAP(val)

---------------------------------------------------------------------------
(* DataFrame of fetched rows: [columns : set of column names,             *)
(*                             rows : sequence of functions column -> cell] *)

isin_accounts(a) == a \in {RU_ACCOUNT_MAIN, RU_ACCOUNT_TRADES}

\* pd.json_normalize(raw_json.get("data", []))
json_normalize(raw) == [columns |-> raw.columns, rows |-> raw.data]

\* seeded fault: the rows of unrecognized accounts are kept
normalize_accounts_unfiltered(df) ==
    [columns |-> df.columns \cup {NORM_COL},
     rows |-> [i \in DOMAIN df.rows |->
                 df.rows[i] @@ (NORM_COL :> IF ACC_COL \in df.columns
                                            THEN map_name(df.rows[i][ACC_COL])
                                            ELSE NoAccount)]]

normalize_accounts(df) ==
    IF ACC_COL \notin df.columns
    THEN [columns |-> df.columns \cup {NORM_COL}, rows |-> <<>>]
    ELSE [columns |-> df.columns \cup {NORM_COL},
          rows |-> SelectSeq([i \in DOMAIN df.rows |->
                              df.rows[i] @@ (NORM_COL :> map_name(df.rows[i][ACC_COL]))],
                            LAMBDA r : isin_accounts(r[NORM_COL]))]

\* "if col not in df.columns: df[col] = 0": the whole column becomes the int 0
\* (for a label column the cell 0, whose str() is "0").
ensure_columns(df) ==
    [columns |-> df.columns \cup REQUIRED_COLS,
     rows |-> [i \in DOMAIN df.rows |->
                 [c \in DOMAIN df.rows[i] |->
                     IF c \in REQUIRED_COLS /\ c \notin df.columns
                     THEN (IF c \in NUMERIC_COLS THEN Num(0) ELSE "0")
                     ELSE df.rows[i][c]]]]

isna(label) == label = None

RECURSIVE sum_skipna(_)
\* sum of the cells of a sequence that are not NaN
sum_skipna(cells) ==
    IF cells = <<>> THEN 0
    ELSE (IF IsNa(Head(cells)) THEN 0 ELSE Head(cells)[1]) + sum_skipna(Tail(cells))

count_notna(cells) == Cardinality({i \in DOMAIN cells : ~IsNa(cells[i])})

\* Series.sum(min_count=m): NaN when fewer than m cells hold a number
series_sum(cells, min_count) ==
    IF count_notna(cells) < min_count THEN NaN ELSE Num(sum_skipna(cells))

column(rows, col) == [i \in DOMAIN rows |-> rows[i][col]]

RECURSIVE SetToSeq(_)
SetToSeq(S) ==
    IF S = {} THEN <<>>
    ELSE LET x == CHOOSE y \in S : TRUE IN <<x>> \o SetToSeq(S \ {x})

RECURSIVE flatten(_)
flatten(seqs) == IF seqs = <<>> THEN <<>> ELSE Head(seqs) \o flatten(Tail(seqs))

\* seeded fault: the first row of an account is taken instead of the sum
groupby_account_first(rows, col) ==
    [a \in {rows[i][NORM_COL] : i \in DOMAIN rows} |->
        series_sum(<<Head(SelectSeq(rows, LAMBDA r : r[NORM_COL] = a))[col]>>, 0)]

\* rows.groupby("AccountNorm")[col].sum(): one entry per account that has a row
groupby_account_sum(rows, col) ==
    [a \in {rows[i][NORM_COL] : i \in DOMAIN rows} |->
        series_sum(column(SelectSeq(rows, LAMBDA r : r[NORM_COL] = a), col), 0)]

\* series.reindex([RU_ACCOUNT_MAIN, RU_ACCOUNT_TRADES]).fillna(0)
reindex_fillna(series) ==
    [a \in {RU_ACCOUNT_MAIN, RU_ACCOUNT_TRADES} |->
        IF a \in DOMAIN series /\ ~IsNa(series[a]) THEN series[a] ELSE Num(0)]

---------------------------------------------------------------------------
(* Pivoted movement table: [index : set of <<type, category>>,             *)
(*   columns : set of accounts, val : index \X columns -> nullable number] *)

EmptyFrame == [index |-> {}, columns |-> {}, val |-> <<>>]

\* DataFrame.empty
empty(frame) == frame.index = {} \/ frame.columns = {}

\* rows.groupby([type_col, cat_col, "AccountNorm"])[col].sum(min_count=1)
\*     .unstack(fill_value=0)
\* groupby drops the rows with a missing key; unstack fills the absent
\* (type, category, account) combinations with 0 and keeps a NaN sum.
pivot(rows, col) ==
    LET live == SelectSeq(rows, LAMBDA r : ~isna(r[TYPE_COL]) /\ ~isna(r[CAT_COL]))
        keys3 == {<<live[i][TYPE_COL], live[i][CAT_COL], live[i][NORM_COL]>> : i \in DOMAIN live}
        index == {<<k[1], k[2]>> : k \in keys3}
        columns == {k[3] : k \in keys3}
        group(k, a) == SelectSeq(live, LAMBDA r : r[TYPE_COL] = k[1] /\ r[CAT_COL] = k[2]
                                                 /\ r[NORM_COL] = a)
    IN  [index |-> index, columns |-> columns,
         val |-> [k \in index, a \in columns |->
                    IF <<k[1], k[2], a>> \in keys3
                    THEN series_sum(column(group(k, a), col), 1)
                    ELSE Num(0)]]

\* seeded fault: the re-aggregation keeps a missing sum (min_count=1)
regroup_min_count(frame) ==
    LET index2 == {<<k[1], CATEGORY_RU_MAP(k[2])>> : k \in frame.index}
        merged(k2) == {k \in frame.index : <<k[1], CATEGORY_RU_MAP(k[2])>> = k2}
    IN  [index |-> index2, columns |-> frame.columns,
         val |-> [k2 \in index2, a \in frame.columns |->
                    LET ks == SetToSeq(merged(k2))
                    IN  series_sum([i \in DOMAIN ks |-> frame.val[ks[i], a]], 1)]]

\* incoming.index = incoming.index.map(lambda x: (x[0], CATEGORY_RU_MAP.get(x[1], str(x[1]))))
\* incoming = incoming.groupby(level=[0, 1]).sum()
regroup(frame) ==
    LET index2 == {<<k[1], CATEGORY_RU_MAP(k[2])>> : k \in frame.index}
        merged(k2) == {k \in frame.index : <<k[1], CATEGORY_RU_MAP(k[2])>> = k2}
    IN  [index |-> index2, columns |-> frame.columns,
         val |-> [k2 \in index2, a \in frame.columns |->
                    LET ks == SetToSeq(merged(k2))
                    IN  series_sum([i \in DOMAIN ks |-> frame.val[ks[i], a]], 0)]]

\* seeded fault: the category labels are left as fetched
map_categories_skipped(frame) == frame

\* "if not incoming.empty: ..."
map_categories(frame) == IF empty(frame) THEN frame ELSE regroup(frame)

\* "for col in [RU_ACCOUNT_MAIN, RU_ACCOUNT_TRADES]: if col not in frame.columns: frame[col] = 0"
ensure_account_columns(frame) ==
    LET cols == frame.columns \cup {RU_ACCOUNT_MAIN, RU_ACCOUNT_TRADES}
    IN  [index |-> frame.index, columns |-> cols,
         val |-> [k \in frame.index, a \in cols |->
                    IF a \in frame.columns THEN frame.val[k, a] ELSE Num(0)]]

---------------------------------------------------------------------------
(* Statement rows *)

\* sorted() of a set of category labels: Python orders str by code point.
\* The labels of the model in the code-point order of their originals
\* (digits < Latin < Cyrillic; A < V(n) < V(y) < Z < O in the Cyrillic alphabet).
CODE_POINT_ORDER ==
    <<"0", "Rent", "sales", CAT_PEREMESHCHENIE, CAT_VYRUCHKA, CAT_ZAIM, CAT_OPLATA>>

sorted(labels) ==
    SelectSeq(CODE_POINT_ORDER, LAMBDA c : c \in labels)
    \o SetToSeq(labels \ {CODE_POINT_ORDER[i] : i \in DOMAIN CODE_POINT_ORDER})

neg(x) == IF IsNa(x) THEN NaN ELSE Num(0 - x[1])

\* (a or 0) + (b or 0) on floats: NaN is truthy and NaN + x is NaN
add_or0(a, b) == IF IsNa(a) \/ IsNa(b) THEN NaN ELSE Num(a[1] + b[1])

\* a row of the summary table, before the total column is added
summary_row(tl, l1, main_val, trade_val) ==
    [TypeLabel |-> tl, Level1 |-> l1, Level2 |-> "", Level3 |-> "",
     Main |-> main_val, Trades |-> trade_val]

\* seeded fault: the total taken from the main account alone
row_total_main_only(main_val, trade_val) == main_val

\* result["Itogo"] = result[[RU_ACCOUNT_MAIN, RU_ACCOUNT_TRADES]].sum(axis=1)
row_total(main_val, trade_val) == series_sum(<<main_val, trade_val>>, 0)

add_total_column(rows) ==
    [i \in DOMAIN rows |->
        [TypeLabel |-> rows[i].TypeLabel, Level1 |-> rows[i].Level1,
         Level2 |-> rows[i].Level2, Level3 |-> rows[i].Level3,
         Main |-> rows[i].Main, Trades |-> rows[i].Trades,
         Total |-> row_total(rows[i].Main, rows[i].Trades)]]

\* add_row of the detailed builders
detailed_total(main_val, trade_val) == add_or0(main_val, trade_val)

add_row(tl, l1, inout, main_val, trade_val) ==
    [TypeLabel |-> tl, Level1 |-> l1, Level2 |-> "", Level3 |-> "", InOut |-> inout,
     Main |-> main_val, Trades |-> trade_val,
     Total |-> detailed_total(main_val, trade_val)]

\* incoming[incoming.index.get_level_values(0) == flow_type] if not incoming.empty
\* else pd.DataFrame(): the index entries of one activity type
type_index(frame, flow_type) ==
    IF empty(frame) THEN {} ELSE {k \in frame.index : k[1] = flow_type}

level1(index) == {k[2] : k \in index}

\* seeded fault: the financing section is walked first
section_order_reversed == <<FINANCE, OPERATIONAL>>

\* the order in which the activity types are walked
section_order == FLOW_TYPES

\* the categories of one section, in the order their rows are emitted
section_categories(type_incoming, type_outgoing) ==
    sorted(level1(type_incoming) \cup level1(type_outgoing))

\* seeded fault: outgoing amounts shown with their sign unchanged
outgoing_sign_kept(x) == x

\* outgoing amounts are shown negated
outgoing_sign(x) == neg(x)

\* seeded fault: the section header is emitted after the rows of its section
summary_section_header_last(incoming, outgoing, flow_type) ==
    LET type_incoming == type_index(incoming, flow_type)
        type_outgoing == type_index(outgoing, flow_type)
        categories == section_categories(type_incoming, type_outgoing)
        cat_rows(cat) ==
            (IF cat \in level1(type_incoming)
             THEN <<summary_row(type_label(flow_type), cat,
                                incoming.val[<<flow_type, cat>>, RU_ACCOUNT_MAIN],
                                incoming.val[<<flow_type, cat>>, RU_ACCOUNT_TRADES])>>
             ELSE <<>>)
            \o
            (IF cat \in level1(type_outgoing)
             THEN <<summary_row(type_label(flow_type), cat,
                                outgoing_sign(outgoing.val[<<flow_type, cat>>, RU_ACCOUNT_MAIN]),
                                outgoing_sign(outgoing.val[<<flow_type, cat>>, RU_ACCOUNT_TRADES]))>>
             ELSE <<>>)
    IN  IF type_incoming = {} /\ type_outgoing = {} THEN <<>>
        ELSE flatten([i \in DOMAIN categories |-> cat_rows(categories[i])])
             \o <<summary_row(type_label(flow_type), "", Num(0), Num(0))>>

\* the rows of one activity type in the summary builders (empty when the type
\* has no entry in incoming nor in outgoing)
summary_section(incoming, outgoing, flow_type) ==
    LET type_incoming == type_index(incoming, flow_type)
        type_outgoing == type_index(outgoing, flow_type)
        categories == section_categories(type_incoming, type_outgoing)
        cat_rows(cat) ==
            (IF cat \in level1(type_incoming)
             THEN <<summary_row(type_label(flow_type), cat,
                                incoming.val[<<flow_type, cat>>, RU_ACCOUNT_MAIN],
                                incoming.val[<<flow_type, cat>>, RU_ACCOUNT_TRADES])>>
             ELSE <<>>)
            \o
            (IF cat \in level1(type_outgoing)
             THEN <<summary_row(type_label(flow_type), cat,
                                outgoing_sign(outgoing.val[<<flow_type, cat>>, RU_ACCOUNT_MAIN]),
                                outgoing_sign(outgoing.val[<<flow_type, cat>>, RU_ACCOUNT_TRADES]))>>
             ELSE <<>>)
    IN  IF type_incoming = {} /\ type_outgoing = {} THEN <<>>
        ELSE <<summary_row(type_label(flow_type), "", Num(0), Num(0))>>
             \o flatten([i \in DOMAIN categories |-> cat_rows(categories[i])])

\* _get_vals_by_type: float(row.get(col, 0) or 0)
get_val(frame, flow_type, cat, acc) ==
    IF empty(frame) \/ <<flow_type, cat>> \notin frame.index THEN Num(0)
    ELSE frame.val[<<flow_type, cat>>, acc]

detailed_section(incoming, outgoing, flow_type) ==
    LET type_incoming == type_index(incoming, flow_type)
        type_outgoing == type_index(outgoing, flow_type)
        categories == section_categories(type_incoming, type_outgoing)
        cat_rows(cat) ==
            (IF cat \in level1(type_incoming)
             THEN <<add_row(type_label(flow_type), cat, INOUT_IN,
                            get_val(incoming, flow_type, cat, RU_ACCOUNT_MAIN),
                            get_val(incoming, flow_type, cat, RU_ACCOUNT_TRADES))>>
             ELSE <<>>)
            \o
            (IF cat \in level1(type_outgoing)
             THEN <<add_row(type_label(flow_type), cat, INOUT_OUT,
                            outgoing_sign(get_val(outgoing, flow_type, cat, RU_ACCOUNT_MAIN)),
                            outgoing_sign(get_val(outgoing, flow_type, cat, RU_ACCOUNT_TRADES)))>>
             ELSE <<>>)
    IN  IF type_incoming = {} /\ type_outgoing = {} THEN <<>>
        ELSE <<add_row(type_label(flow_type), "", "", Num(0), Num(0))>>
             \o flatten([i \in DOMAIN categories |-> cat_rows(categories[i])])

---------------------------------------------------------------------------
(* The period builders *)

\* df[df[cat_col].isna()] if df[cat_col].isna().any() else df[df[cat_col] == None]
\* (an element-wise comparison with None is False in every row)
balance_rows(df) ==
    IF \E i \in DOMAIN df.rows : isna(df.rows[i][CAT_COL])
    THEN SelectSeq(df.rows, LAMBDA r : isna(r[CAT_COL]))
    ELSE <<>>

\* df[cat_col].notna() if df[cat_col].notna().any() else df[cat_col] != None
\* (an element-wise != None is True in every row)
flow_rows(df) ==
    IF \E i \in DOMAIN df.rows : ~isna(df.rows[i][CAT_COL])
    THEN SelectSeq(df.rows, LAMBDA r : ~isna(r[CAT_COL]))
    ELSE df.rows

\* seeded fault: the balance rows selected by comparison with None (no row)
isna_rows_by_comparison(df) == <<>>

\* df[df[cat_col].isna()] / df[df[cat_col].notna()]
isna_rows(df) == SelectSeq(df.rows, LAMBDA r : isna(r[CAT_COL]))
notna_rows(df) == SelectSeq(df.rows, LAMBDA r : ~isna(r[CAT_COL]))

prepare(raw) == ensure_columns(normalize_accounts(json_normalize(raw)))

movement_table(rows, col) == ensure_account_columns(map_categories(pivot(rows, col)))

build_cashflow_tables(raw) ==
    LET df == prepare(raw)
        balances_df == balance_rows(df)
        flows_df == flow_rows(df)
        start_bal == reindex_fillna(groupby_account_sum(balances_df, START_COL))
        incoming == movement_table(flows_df, IN_COL)
        outgoing == movement_table(flows_df, OUT_COL)
        end_bal == reindex_fillna(groupby_account_sum(balances_df, FINAL_COL))
    IN  add_total_column(
            <<summary_row(LABEL_START, "", start_bal[RU_ACCOUNT_MAIN], start_bal[RU_ACCOUNT_TRADES])>>
            \o flatten([i \in DOMAIN section_order |->
                          summary_section(incoming, outgoing, section_order[i])])
            \o <<summary_row(LABEL_END, "", end_bal[RU_ACCOUNT_MAIN], end_bal[RU_ACCOUNT_TRADES])>>)

build_cashflow_detailed_table(raw) ==
    LET df == prepare(raw)
        balances_df == isna_rows(df)
        flows_df == notna_rows(df)
        start_bal == reindex_fillna(groupby_account_sum(balances_df, START_COL))
        incoming == movement_table(flows_df, IN_COL)
        outgoing == movement_table(flows_df, OUT_COL)
        end_bal == reindex_fillna(groupby_account_sum(balances_df, FINAL_COL))
    IN  <<add_row(LABEL_START, "", "", start_bal[RU_ACCOUNT_MAIN], start_bal[RU_ACCOUNT_TRADES])>>
        \o flatten([i \in DOMAIN section_order |->
                      detailed_section(incoming, outgoing, section_order[i])])
        \o <<add_row(LABEL_END, "", "", end_bal[RU_ACCOUNT_MAIN], end_bal[RU_ACCOUNT_TRADES])>>

---------------------------------------------------------------------------
(* The day builders *)

\* seeded fault: the subtraction without fill_value (a cell missing on one side
\* makes the difference missing)
sub_no_fill(curr, prev) ==
    LET index == curr.index \cup prev.index
        columns == curr.columns \cup prev.columns
        cell(frame, k, a) ==
            IF k \in frame.index /\ a \in frame.columns THEN frame.val[k, a] ELSE NaN
    IN  [index |-> index, columns |-> columns,
         val |-> [k \in index, a \in columns |->
                    IF IsNa(cell(curr, k, a)) \/ IsNa(cell(prev, k, a)) THEN NaN
                    ELSE Num(cell(curr, k, a)[1] - cell(prev, k, a)[1])]]

\* curr.sub(prev, fill_value=0): outer join of index and columns; a cell missing
\* on one side counts as 0, a cell missing on both sides stays NaN
sub_fill0(curr, prev) ==
    LET index == curr.index \cup prev.index
        columns == curr.columns \cup prev.columns
        cell(frame, k, a) ==
            IF k \in frame.index /\ a \in frame.columns THEN frame.val[k, a] ELSE NaN
        num0(x) == IF IsNa(x) THEN 0 ELSE x[1]
    IN  [index |-> index, columns |-> columns,
         val |-> [k \in index, a \in columns |->
                    IF IsNa(cell(curr, k, a)) /\ IsNa(cell(prev, k, a)) THEN NaN
                    ELSE Num(num0(cell(curr, k, a)) - num0(cell(prev, k, a)))]]

\* one of the two frames calculate_daily_movement returns (col = Sum.Incoming
\* for daily_incoming, Sum.Outgoing for daily_outgoing)
calculate_daily_movement(current, previous, col) ==
    sub_fill0(pivot(current, col), pivot(previous, col))

\* frame.sum()[acc]
column_sum(frame, acc) ==
    LET ks == SetToSeq(frame.index)
    IN  sum_skipna([i \in DOMAIN ks |-> frame.val[ks[i], acc]])

\* seeded fault: the net movement of the day ignores the outgoing amounts
net_by_acc_incoming_only(incoming, outgoing) ==
    [acc \in {RU_ACCOUNT_MAIN, RU_ACCOUNT_TRADES} |->
        IF ~empty(incoming) /\ ~empty(outgoing) THEN column_sum(incoming, acc) ELSE 0]

\* net_by_acc of build_cashflow_tables_for_day
net_by_acc_summary(incoming, outgoing) ==
    [acc \in {RU_ACCOUNT_MAIN, RU_ACCOUNT_TRADES} |->
        IF ~empty(incoming) /\ ~empty(outgoing)
        THEN column_sum(incoming, acc) - column_sum(outgoing, acc)
        ELSE 0]

build_cashflow_tables_for_day(raw_day, raw_prev) ==
    LET day == prepare(raw_day)
        prev == prepare(raw_prev)
        prev_balances == isna_rows(prev)
        start_bal == reindex_fillna(groupby_account_sum(prev_balances, FINAL_COL))
        flows_day == flow_rows(day)
        flows_prev == flow_rows(prev)
        incoming == ensure_account_columns(map_categories(
                        calculate_daily_movement(flows_day, flows_prev, IN_COL)))
        outgoing == ensure_account_columns(map_categories(
                        calculate_daily_movement(flows_day, flows_prev, OUT_COL)))
        net_by_acc == net_by_acc_summary(incoming, outgoing)
        end_bal == [acc \in {RU_ACCOUNT_MAIN, RU_ACCOUNT_TRADES} |->
                        Num(start_bal[acc][1] + net_by_acc[acc])]
    IN  add_total_column(
            <<summary_row(LABEL_START, "", start_bal[RU_ACCOUNT_MAIN], start_bal[RU_ACCOUNT_TRADES])>>
            \o flatten([i \in DOMAIN section_order |->
                          summary_section(incoming, outgoing, section_order[i])])
            \o <<summary_row(LABEL_END, "", end_bal[RU_ACCOUNT_MAIN], end_bal[RU_ACCOUNT_TRADES])>>)

\* flows_day.groupby("AccountNorm").apply(lambda x: (x["Sum.Incoming"].fillna(0)
\*     - x["Sum.Outgoing"].fillna(0)).sum()).reindex([...]).fillna(0)
\* flows_day.groupby("AccountNorm").apply(...) over an empty flows_day
net_by_acc_is_frame(flows_day) == flows_day = <<>>

net_by_acc_detailed(flows_day) ==
    [acc \in {RU_ACCOUNT_MAIN, RU_ACCOUNT_TRADES} |->
        LET own == SelectSeq(flows_day, LAMBDA r : r[NORM_COL] = acc)
        IN  sum_skipna(column(own, IN_COL)) - sum_skipna(column(own, OUT_COL))]

build_cashflow_detailed_table_for_day(raw_day, raw_prev) ==
    LET day == prepare(raw_day)
        prev == prepare(raw_prev)
        prev_balances == balance_rows(prev)
        start_bal == reindex_fillna(groupby_account_sum(prev_balances, FINAL_COL))
        flows_day == notna_rows(day)
        incoming == movement_table(flows_day, IN_COL)
        outgoing == movement_table(flows_day, OUT_COL)
        net_by_acc == net_by_acc_detailed(flows_day)
        end_bal == [acc \in {RU_ACCOUNT_MAIN, RU_ACCOUNT_TRADES} |->
                        Num(start_bal[acc][1] + net_by_acc[acc])]
    IN  <<add_row(LABEL_START, "", "", start_bal[RU_ACCOUNT_MAIN], start_bal[RU_ACCOUNT_TRADES])>>
        \o flatten([i \in DOMAIN section_order |->
                      detailed_section(incoming, outgoing, section_order[i])])
        \o <<add_row(LABEL_END, "", "", end_bal[RU_ACCOUNT_MAIN], end_bal[RU_ACCOUNT_TRADES])>>

---------------------------------------------------------------------------
(* Fetched data: the rows a fetch may return, up to a bounded number *)

MaxRows == 3        \* rows of a period snapshot
MaxDayRows == 2     \* rows of each snapshot of a day request

NAME_BANK == <<"B","a","n","k">>
INVESTMENT == "INVESTMENT"

Row(name, type, cat, incoming, outgoing, start, final) ==
    (ACC_COL :> name) @@ (TYPE_COL :> type) @@ (CAT_COL :> cat)
    @@ (IN_COL :> incoming) @@ (OUT_COL :> outgoing)
    @@ (START_COL :> start) @@ (FINAL_COL :> final)

\* a balance row: no category, no activity type
Bal(name, start, final) == Row(name, None, None, Num(0), Num(0), start, final)
\* a movement row
Mov(name, type, cat, incoming, outgoing) == Row(name, type, cat, incoming, outgoing, NaN, NaN)

PeriodPool ==
    {Bal(RU_ACCOUNT_MAIN, Num(1000), Num(1200)), Bal(RU_ACCOUNT_MAIN, NaN, Num(7)),
     Bal(RU_ACCOUNT_TRADES, Num(30), Num(40)), Bal(NAME_BANK, Num(5), Num(6))}
    \cup {Mov(RU_ACCOUNT_MAIN, k[1], k[2], Num(500), Num(200)) :
            k \in {<<OPERATIONAL, "Sales">>, <<OPERATIONAL, "Revenue">>,
                   <<OPERATIONAL, "Rent">>, <<INVESTMENT, "Sales">>}}
    \cup {Mov(RU_ACCOUNT_TRADES, k[1], k[2], Num(70), Num(20)) :
            k \in {<<OPERATIONAL, "Sales">>, <<OPERATIONAL, "Rent">>,
                   <<FINANCE, "Rent">>}}
    \cup {Mov(EN_ACCOUNT_MAIN, FINANCE, "Loan", Num(500), Num(200)),
          Mov(EN_ACCOUNT_TRADES, FINANCE, "Loan", Num(40), NaN),
          Mov(RU_ACCOUNT_MAIN, OPERATIONAL, "Sales", NaN, Num(3)),
          Mov(RU_ACCOUNT_MAIN, OPERATIONAL, "sales", Num(11), Num(0)),
          Mov(NAME_BANK, OPERATIONAL, "Sales", Num(13), Num(17)),
          Mov(NoAccount, FINANCE, "Loan", Num(19), Num(23)),
          Mov(RU_ACCOUNT_MAIN, FINANCE, CAT_ZAIM, Num(500), Num(200))}

DayPool ==
    {Bal(RU_ACCOUNT_MAIN, Num(1000), Num(1200)), Bal(RU_ACCOUNT_TRADES, Num(30), Num(40)),
     Mov(RU_ACCOUNT_MAIN, OPERATIONAL, "Sales", Num(450), Num(100)),
     Mov(RU_ACCOUNT_MAIN, OPERATIONAL, "Revenue", Num(50), Num(20)),
     Mov(RU_ACCOUNT_TRADES, OPERATIONAL, "Rent", Num(0), Num(70)),
     Mov(RU_ACCOUNT_MAIN, FINANCE, "Loan", Num(500), Num(200)),
     Mov(RU_ACCOUNT_TRADES, FINANCE, "Loan", Num(5), NaN),
     Mov(RU_ACCOUNT_TRADES, INVESTMENT, "Sales", Num(9), Num(4)),
     Mov(RU_ACCOUNT_MAIN, OPERATIONAL, "Sales", NaN, Num(3)),
     Mov(NAME_BANK, OPERATIONAL, "Sales", Num(13), Num(17))}

PrevPool ==
    {Bal(RU_ACCOUNT_MAIN, Num(900), Num(1000)), Bal(RU_ACCOUNT_TRADES, Num(25), Num(30)),
     Bal(NAME_BANK, Num(5), Num(6)),
     Mov(RU_ACCOUNT_MAIN, OPERATIONAL, "Sales", Num(300), Num(60)),
     Mov(RU_ACCOUNT_TRADES, OPERATIONAL, "Rent", Num(20), Num(10)),
     Mov(RU_ACCOUNT_MAIN, FINANCE, "Loan", Num(100), Num(50))}

\* the responses of at most n rows drawn from a pool (the order of the rows of a
\* response does not matter to the builders: one order per multiset of rows)
Snapshots(pool, n) ==
    LET p == SetToSeq(pool)
    IN  UNION {
          {[columns |-> ALL_COLS, data |-> [i \in 1 .. k |-> p[s[i]]]] :
             s \in {f \in [1 .. k -> 1 .. Len(p)] :
                      \A i \in 1 .. (k - 1) : f[i] <= f[i + 1]}} :
          k \in 0 .. n}

PeriodSnapshots == Snapshots(PeriodPool, MaxRows)
DaySnapshots == Snapshots(DayPool, MaxDayRows)
PrevSnapshots == Snapshots(PrevPool, MaxDayRows)

NoSnapshot == [columns |-> {}, data |-> <<>>]

---------------------------------------------------------------------------
(* One report request: cashflow_command and its generate_report *)

\* date_from / date_to before the arguments are read
NoDate == <<>>
NoPath == ""

\* the handlers of two /cashflow commands, none of them called yet
Requests == {1, 2}
IdleRequest ==
    [pc |-> "idle", raw_json |-> NoSnapshot, res |-> <<>>, det |-> <<>>,
     excel_path |-> NoPath, excel_detailed_path |-> NoPath, error |-> "none", sent |-> <<>>]

Init ==
    /\ pc = "idle"
    /\ day_mode = FALSE
    /\ raw_json = NoSnapshot
    /\ raw_json_prev = NoSnapshot
    /\ res = <<>>
    /\ det = <<>>
    /\ error = "none"
    /\ args = <<>>
    /\ date_from = NoDate
    /\ date_to = NoDate
    /\ fetched = <<>>
    /\ files = <<>>
    /\ locked = {}
    /\ workbook_path = NoPath
    /\ excel_path = NoPath
    /\ excel_detailed_path = NoPath
    /\ message_text = <<>>
    /\ attempt = 0
    /\ outcomes = <<>>
    /\ waits = <<>>
    /\ sent = <<>>
    /\ requests = [r \in Requests |-> IdleRequest]
    /\ table = <<>>
    /\ tree_text = <<>>

\* cashflow_command: one date (or two equal dates) selects the day mode
CashflowCommand ==
    /\ pc = "idle"
    /\ \E mode \in BOOLEAN :
         /\ day_mode' = mode
         /\ pc' = IF mode THEN "fetch_prev" ELSE "fetch_period"
    /\ UNCHANGED <<layout_vars, requests, raw_json, raw_json_prev, res, det, error, handler_vars, delivery_vars>>

\* raw_json_prev = client.fetch_olap_transactions(date_from, date_to)
FetchPrevDay ==
    /\ pc = "fetch_prev"
    /\ \E snap \in PrevSnapshots : raw_json_prev' = snap
    /\ pc' = "fetch_day"
    /\ UNCHANGED <<layout_vars, requests, day_mode, raw_json, res, det, error, handler_vars, delivery_vars>>

\* raw_json_day = client.fetch_olap_transactions(date_to, next_day)
FetchSelectedDay ==
    /\ pc = "fetch_day"
    /\ \E snap \in DaySnapshots : raw_json' = snap
    /\ pc' = "build_res"
    /\ UNCHANGED <<layout_vars, requests, day_mode, raw_json_prev, res, det, error, handler_vars, delivery_vars>>

\* raw_json = client.fetch_olap_transactions(date_from, date_to)
FetchPeriod ==
    /\ pc = "fetch_period"
    /\ \E snap \in PeriodSnapshots : raw_json' = snap
    /\ pc' = "build_res"
    /\ UNCHANGED <<layout_vars, requests, day_mode, raw_json_prev, res, det, error, handler_vars, delivery_vars>>

BuildTables ==
    /\ pc = "build_res" /\ ~day_mode
    /\ res' = build_cashflow_tables(raw_json)
    /\ pc' = "build_det"
    /\ UNCHANGED <<layout_vars, requests, day_mode, raw_json, raw_json_prev, det, error, handler_vars, delivery_vars>>

BuildDetailedTable ==
    /\ pc = "build_det" /\ ~day_mode
    /\ det' = build_cashflow_detailed_table(raw_json)
    /\ pc' = "built"
    /\ UNCHANGED <<layout_vars, requests, day_mode, raw_json, raw_json_prev, res, error, handler_vars, delivery_vars>>

BuildTablesForDay ==
    /\ pc = "build_res" /\ day_mode
    /\ res' = build_cashflow_tables_for_day(raw_json, raw_json_prev)
    /\ pc' = "build_det"
    /\ UNCHANGED <<layout_vars, requests, day_mode, raw_json, raw_json_prev, det, error, handler_vars, delivery_vars>>

\* With no movement row of the day, net_by_acc is not a Series: groupby().apply()
\* over no groups returns an empty DataFrame with the columns of flows_day, so
\* start_bal + net_by_acc is a DataFrame, end_bal.get(RU_ACCOUNT_MAIN, 0) a
\* two-row column and float() of it raises TypeError.
BuildDetailedTableForDay ==
    /\ pc = "build_det" /\ day_mode
    /\ IF net_by_acc_is_frame(notna_rows(prepare(raw_json)))
       THEN /\ error' = "TypeError"
            /\ pc' = "failed"
            /\ det' = det
       ELSE /\ det' = build_cashflow_detailed_table_for_day(raw_json, raw_json_prev)
            /\ pc' = "built"
            /\ error' = error
    /\ UNCHANGED <<layout_vars, requests, day_mode, raw_json, raw_json_prev, res, handler_vars, delivery_vars>>

Next ==
    \/ CashflowCommand
    \/ FetchPrevDay
    \/ FetchSelectedDay
    \/ FetchPeriod
    \/ BuildTables
    \/ BuildDetailedTable
    \/ BuildTablesForDay
    \/ BuildDetailedTableForDay

Spec == Init /\ [][Next]_vars

---------------------------------------------------------------------------
(* What the claims speak about: the fetched rows and the built statements *)

ResBuilt == res # <<>>
DetBuilt == det # <<>>

Cell(row, acc) == IF acc = RU_ACCOUNT_MAIN THEN row.Main ELSE row.Trades
BothAccounts == {RU_ACCOUNT_MAIN, RU_ACCOUNT_TRADES}
ShownTypes == {OPERATIONAL, FINANCE}

AccountOf(r) == map_name(r[ACC_COL])
IsKnown(r) == AccountOf(r) \in BothAccounts
IsMovement(r) == r[CAT_COL] # None
IsBalance(r) == r[CAT_COL] = None

RECURSIVE Sigma(_, _)
\* the sum of column col over rows, a missing amount counting as 0
Sigma(rows, col) ==
    IF rows = <<>> THEN 0
    ELSE (IF Head(rows)[col] = NaN THEN 0 ELSE Head(rows)[col][1]) + Sigma(Tail(rows), col)

\* the movement rows of a snapshot in the group (type, canonical category, account)
GroupRows(raw, type, cat, acc) ==
    SelectSeq(raw.data, LAMBDA r : /\ IsMovement(r)
                                   /\ AccountOf(r) = acc
                                   /\ r[TYPE_COL] = type
                                   /\ CATEGORY_RU_MAP(r[CAT_COL]) = cat)

\* the canonical categories that have a movement row of a recognized account
CanonCats(raw, type) ==
    {CATEGORY_RU_MAP(raw.data[i][CAT_COL]) :
        i \in {j \in DOMAIN raw.data : /\ IsMovement(raw.data[j])
                                       /\ IsKnown(raw.data[j])
                                       /\ raw.data[j][TYPE_COL] = type}}

\* the positions of the rows of a statement under (type label, category)
Idx(stmt, tl, l1) == {i \in DOMAIN stmt : stmt[i].TypeLabel = tl /\ stmt[i].Level1 = l1}

Statements == (IF ResBuilt THEN {res} ELSE {}) \cup (IF DetBuilt THEN {det} ELSE {})

---------------------------------------------------------------------------
\* C1: in every statement of the four builders the total column of every row
\* (opening, section header, movement, closing) equals the sum of the row's two
\* account columns.
C1_TotalIsSumOfAccounts ==
    \A stmt \in Statements : \A i \in DOMAIN stmt :
        /\ stmt[i].Total # NaN
        /\ stmt[i].Main # NaN /\ stmt[i].Trades # NaN
        /\ stmt[i].Total[1] = stmt[i].Main[1] + stmt[i].Trades[1]

\* a day statement holds a movement row with a non-zero value in both accounts
C1_Witness ==
    /\ day_mode /\ ResBuilt /\ DetBuilt
    /\ \E i \in DOMAIN res : /\ res[i].Level1 # ""
                             /\ res[i].Main # Num(0) /\ res[i].Trades # Num(0)
                             /\ res[i].Total # Num(0)

\* C2: in the period statements, for every group (activity type, canonical
\* category, account) of movement rows the incoming row carries the group's summed
\* incoming amount, sign unchanged, and the outgoing row the negation of the
\* group's summed outgoing amount. In the summary table the incoming row is the
\* first and the outgoing row the second of the category's two rows.
C2_SignedAmounts ==
    ~day_mode =>
      \A type \in ShownTypes : \A cat \in CanonCats(raw_json, type) : \A acc \in BothAccounts :
        LET sumIn == Sigma(GroupRows(raw_json, type, cat, acc), IN_COL)
            sumOut == Sigma(GroupRows(raw_json, type, cat, acc), OUT_COL)
        IN  /\ ResBuilt =>
                LET I == Idx(res, type_label(type), cat)
                IN  /\ Cardinality(I) = 2
                    /\ \E j \in I : /\ I = {j, j + 1}
                                    /\ Cell(res[j], acc) = Num(sumIn)
                                    /\ Cell(res[j + 1], acc) = Num(0 - sumOut)
            /\ DetBuilt =>
                /\ \E i \in Idx(det, type_label(type), cat) :
                      det[i].InOut = INOUT_IN /\ Cell(det[i], acc) = Num(sumIn)
                /\ \E i \in Idx(det, type_label(type), cat) :
                      det[i].InOut = INOUT_OUT /\ Cell(det[i], acc) = Num(0 - sumOut)
                /\ \A i \in Idx(det, type_label(type), cat) :
                      Cell(det[i], acc) = IF det[i].InOut = INOUT_IN THEN Num(sumIn)
                                          ELSE Num(0 - sumOut)

\* spec example 2: category Zaim, FINANCE, main account, incoming 500 and outgoing 200
C2_Witness ==
    /\ ~day_mode /\ DetBuilt
    /\ \E i \in DOMAIN raw_json.data :
          raw_json.data[i] = Mov(RU_ACCOUNT_MAIN, FINANCE, CAT_ZAIM, Num(500), Num(200))
    /\ \E i \in DOMAIN res : /\ res[i].Level1 = CAT_ZAIM /\ res[i].Main = Num(500)
                             /\ res[i + 1].Level1 = CAT_ZAIM /\ res[i + 1].Main = Num(0 - 200)
                             /\ res[i].Total = Num(500) /\ res[i + 1].Total = Num(0 - 200)

\* the net movement (incoming - outgoing) of an account over all the movement rows
\* of a snapshot, whatever their category
NetMovement(raw, acc) ==
    LET own == SelectSeq(raw.data, LAMBDA r : IsMovement(r) /\ AccountOf(r) = acc)
    IN  Sigma(own, IN_COL) - Sigma(own, OUT_COL)

Opening(stmt, acc) == Cell(stmt[1], acc)
Closing(stmt, acc) == Cell(stmt[Len(stmt)], acc)

\* C3: in both day statements the closing balance of each account is its opening
\* balance plus the net movement (incoming - outgoing) of the day over all
\* categories: the day's movement of the summary builder is the difference of the
\* two snapshots, that of the detailed builder the selected day's snapshot. The
\* FinalBalance field of the selected day's snapshot is not read.
C3_DayClosingIsOpeningPlusNet ==
    day_mode =>
      \A acc \in BothAccounts :
        /\ ResBuilt =>
             Closing(res, acc) = Num(Opening(res, acc)[1] + NetMovement(raw_json, acc)
                                     - NetMovement(raw_json_prev, acc))
        /\ DetBuilt =>
             Closing(det, acc) = Num(Opening(det, acc)[1] + NetMovement(raw_json, acc))

\* the day has movements in two categories and a balance row whose FinalBalance
\* differs from the closing balance shown
C3_Witness ==
    /\ day_mode /\ DetBuilt
    /\ Cardinality(CanonCats(raw_json, OPERATIONAL) \cup CanonCats(raw_json, FINANCE)) >= 2
    /\ NetMovement(raw_json_prev, RU_ACCOUNT_MAIN) # 0
    /\ Closing(res, RU_ACCOUNT_MAIN) # Opening(res, RU_ACCOUNT_MAIN)

\* a snapshot without the rows whose account is none of the two canonical ones
KnownOnly(raw) == [columns |-> raw.columns, data |-> SelectSeq(raw.data, IsKnown)]

\* C4: a fetched row whose account name normalizes to neither canonical account
\* (an empty or missing name included) contributes to no value of any statement:
\* every builder returns the statement it returns without those rows.
C4_UnknownAccountsContributeNothing ==
    /\ ResBuilt =>
         res = IF day_mode
               THEN build_cashflow_tables_for_day(KnownOnly(raw_json), KnownOnly(raw_json_prev))
               ELSE build_cashflow_tables(KnownOnly(raw_json))
    /\ DetBuilt =>
         det = IF day_mode
               THEN build_cashflow_detailed_table_for_day(KnownOnly(raw_json),
                                                          KnownOnly(raw_json_prev))
               ELSE build_cashflow_detailed_table(KnownOnly(raw_json))

\* a period statement built from a balance row and a movement row of unrecognized
\* accounts (one of them with an empty name) beside a recognized row
C4_Witness ==
    /\ ~day_mode /\ DetBuilt
    /\ \E i, j, k \in DOMAIN raw_json.data :
          /\ raw_json.data[i][ACC_COL] = NoAccount /\ IsMovement(raw_json.data[i])
          /\ raw_json.data[j][ACC_COL] = NAME_BANK /\ IsBalance(raw_json.data[j])
          /\ IsKnown(raw_json.data[k])
    /\ Len(res) = 2

IsHeader(row) ==
    /\ row.Level1 = "" /\ row.Level2 = "" /\ row.Level3 = ""
    /\ row.Main = Num(0) /\ row.Trades = Num(0)

SectionLabels == {LABEL_OPERATIONAL, LABEL_FINANCE}

\* the positions of the rows of one activity type
SectionIdx(stmt, tl) == {i \in DOMAIN stmt : stmt[i].TypeLabel = tl}

WellFormed(stmt) ==
    /\ Len(stmt) >= 2
    /\ stmt[1].TypeLabel = LABEL_START
    /\ stmt[Len(stmt)].TypeLabel = LABEL_END
    /\ \A i \in 2 .. (Len(stmt) - 1) : stmt[i].TypeLabel \in SectionLabels
    /\ \A tl \in SectionLabels :
         LET I == SectionIdx(stmt, tl)
         IN  I # {} =>
               \E lo \in I : \E hi \in I :
                  /\ I = lo .. hi
                  /\ IsHeader(stmt[lo])
                  /\ \A i \in I \ {lo} : stmt[i].Level1 # ""

\* C5: every statement has the opening-balance row first and the closing-balance
\* row last; between them the rows of one activity type are contiguous and begin
\* with the one section-header row of that type, whose category labels are blank
\* and whose account values are 0.
C5_StatementLayout == \A stmt \in Statements : WellFormed(stmt)

\* a day statement with an operational and a financing section
C5_Witness ==
    /\ day_mode /\ DetBuilt
    /\ SectionIdx(res, LABEL_OPERATIONAL) # {} /\ SectionIdx(res, LABEL_FINANCE) # {}
    /\ SectionIdx(det, LABEL_OPERATIONAL) # {} /\ SectionIdx(det, LABEL_FINANCE) # {}

Rank(label) == CHOOSE i \in DOMAIN CODE_POINT_ORDER : CODE_POINT_ORDER[i] = label

SectionsInOrder(stmt, raw) ==
    /\ \A type \in ShownTypes :
         SectionIdx(stmt, type_label(type)) # {} <=> CanonCats(raw, type) # {}
    /\ \A i \in SectionIdx(stmt, LABEL_OPERATIONAL) :
         \A j \in SectionIdx(stmt, LABEL_FINANCE) : i < j
    /\ \A tl \in SectionLabels : \A i \in SectionIdx(stmt, tl) : \A j \in SectionIdx(stmt, tl) :
         (i < j /\ stmt[i].Level1 # "") => Rank(stmt[i].Level1) <= Rank(stmt[j].Level1)

\* C6: in the period statements a section is emitted for an activity type iff the
\* type has a movement; the operational section precedes the financing section;
\* inside a section the categories ascend in the code-point order of their
\* canonical label and the incoming row of a category comes immediately before
\* its outgoing row.
C6_SectionsAndOrder ==
    ~day_mode =>
      /\ ResBuilt =>
           /\ SectionsInOrder(res, raw_json)
           /\ \A type \in ShownTypes : \A cat \in CanonCats(raw_json, type) :
                \E j \in DOMAIN res :
                   /\ Idx(res, type_label(type), cat) = {j, j + 1}
                   /\ \A acc \in BothAccounts :
                        /\ Cell(res[j], acc) =
                             Num(Sigma(GroupRows(raw_json, type, cat, acc), IN_COL))
      /\ DetBuilt =>
           /\ SectionsInOrder(det, raw_json)
           /\ \A i \in DOMAIN det :
                det[i].InOut = INOUT_IN =>
                   /\ det[i + 1].InOut = INOUT_OUT
                   /\ det[i + 1].Level1 = det[i].Level1
                   /\ det[i + 1].TypeLabel = det[i].TypeLabel
           /\ \A i \in DOMAIN det :
                det[i].InOut = INOUT_OUT => det[i - 1].InOut = INOUT_IN

\* a period statement with both sections and two categories in the operational one
C6_Witness ==
    /\ ~day_mode /\ DetBuilt
    /\ Cardinality(CanonCats(raw_json, OPERATIONAL)) = 2
    /\ CanonCats(raw_json, FINANCE) # {}
    /\ Len(res) = 10 /\ Len(det) = 10

\* the balance rows of a recognized account
BalanceRows(raw, acc) == SelectSeq(raw.data, LAMBDA r : IsBalance(r) /\ AccountOf(r) = acc)

\* C7: in the period statements the opening value of each canonical account is
\* the sum of StartBalance.Money over the balance rows of the account and the
\* closing value the sum of FinalBalance.Money over them; 0 without a balance row.
C7_PeriodBalances ==
    ~day_mode =>
      \A stmt \in Statements : \A acc \in BothAccounts :
        /\ Opening(stmt, acc) = Num(Sigma(BalanceRows(raw_json, acc), START_COL))
        /\ Closing(stmt, acc) = Num(Sigma(BalanceRows(raw_json, acc), FINAL_COL))

\* spec example 1: one main-account balance row 1000 / 1200
C7_Witness ==
    /\ ~day_mode /\ DetBuilt
    /\ raw_json.data = <<Bal(RU_ACCOUNT_MAIN, Num(1000), Num(1200))>>
    /\ Opening(res, RU_ACCOUNT_MAIN) = Num(1000) /\ Closing(res, RU_ACCOUNT_MAIN) = Num(1200)
    /\ Opening(res, RU_ACCOUNT_TRADES) = Num(0) /\ Closing(res, RU_ACCOUNT_TRADES) = Num(0)

\* C8: in every row of every statement both account columns hold a number, never
\* a missing value, also when a movement row lacks one of its amount fields.
C8_NoMissingCell ==
    \A stmt \in Statements : \A i \in DOMAIN stmt :
        stmt[i].Main # NaN /\ stmt[i].Trades # NaN

LacksAmount(r) == IsMovement(r) /\ IsKnown(r) /\ (r[IN_COL] = NaN \/ r[OUT_COL] = NaN)

\* a statement built from a movement row that lacks an amount, alone in its group
C8_Witness ==
    /\ DetBuilt
    /\ \E i \in DOMAIN raw_json.data :
          /\ LacksAmount(raw_json.data[i])
          /\ \A j \in DOMAIN raw_json.data : j # i => ~IsMovement(raw_json.data[j])
    /\ Len(res) > 2

\* the raw labels of the movement rows that collapse onto one canonical category
RawLabels(raw, type, cat) ==
    {raw.data[i][CAT_COL] :
        i \in {j \in DOMAIN raw.data : /\ IsMovement(raw.data[j]) /\ IsKnown(raw.data[j])
                                       /\ raw.data[j][TYPE_COL] = type
                                       /\ CATEGORY_RU_MAP(raw.data[j][CAT_COL]) = cat}}

\* the movement rows of one raw label
LabelRows(raw, type, label, acc) ==
    SelectSeq(raw.data, LAMBDA r : /\ AccountOf(r) = acc /\ r[TYPE_COL] = type
                                   /\ r[CAT_COL] = label)

RECURSIVE SumOfLabels(_, _, _, _, _)
SumOfLabels(raw, type, labels, acc, col) ==
    IF labels = {} THEN 0
    ELSE LET l == CHOOSE x \in labels : TRUE
         IN  Sigma(LabelRows(raw, type, l, acc), col)
             + SumOfLabels(raw, type, labels \ {l}, acc, col)

\* C9: raw category labels with the same canonical label are merged: per activity
\* type the period statement has at most one incoming and one outgoing row per
\* canonical category, no row under a synonym, and each row holds per account the
\* sum of the amounts of all the raw labels that collapsed onto the category.
C9_SynonymsMerged ==
    ~day_mode =>
      /\ \A stmt \in Statements : \A i \in DOMAIN stmt :
           CATEGORY_RU_MAP(stmt[i].Level1) = stmt[i].Level1
      /\ \A type \in ShownTypes : \A cat \in CanonCats(raw_json, type) : \A acc \in BothAccounts :
           LET labels == RawLabels(raw_json, type, cat)
               sumIn == SumOfLabels(raw_json, type, labels, acc, IN_COL)
               sumOut == SumOfLabels(raw_json, type, labels, acc, OUT_COL)
           IN  /\ ResBuilt =>
                    LET I == Idx(res, type_label(type), cat)
                    IN  /\ Cardinality(I) <= 2
                        /\ \E j \in I : Cell(res[j], acc) = Num(sumIn)
                        /\ \E j \in I : Cell(res[j], acc) = Num(0 - sumOut)
               /\ DetBuilt =>
                    LET I == Idx(det, type_label(type), cat)
                    IN  /\ Cardinality({i \in I : det[i].InOut = INOUT_IN}) = 1
                        /\ Cardinality({i \in I : det[i].InOut = INOUT_OUT}) = 1
                        /\ \A i \in I : Cell(det[i], acc) =
                              IF det[i].InOut = INOUT_IN THEN Num(sumIn) ELSE Num(0 - sumOut)

\* Sales and Revenue rows of one activity type give a single pair of Vyruchka rows
C9_Witness ==
    /\ ~day_mode /\ DetBuilt
    /\ RawLabels(raw_json, OPERATIONAL, CAT_VYRUCHKA) = {"Sales", "Revenue"}
    /\ Cardinality(Idx(res, LABEL_OPERATIONAL, CAT_VYRUCHKA)) = 2
    /\ \E i \in DOMAIN det : /\ det[i].Level1 = CAT_VYRUCHKA /\ det[i].InOut = INOUT_IN
                             /\ det[i].Main = Num(1000)

\* the targets of the synonym table
CATEGORY_TARGETS == {CAT_PEREMESHCHENIE, CAT_OPLATA, CAT_VYRUCHKA, CAT_ZAIM}

\* C10: a movement row of type OPERATIONAL or FINANCE whose category label is not
\* a key of the synonym table appears in the period statement under exactly that
\* label (the lookup is by exact key: sales is not Sales), with the amounts of the
\* rows of that label when no synonym maps onto it; no row is dropped.
C10_UnmappedLabelVerbatim ==
    ~day_mode =>
      \A stmt \in Statements : \A i \in DOMAIN raw_json.data :
        LET r == raw_json.data[i]
            I == Idx(stmt, type_label(r[TYPE_COL]), r[CAT_COL])
        IN  (IsMovement(r) /\ IsKnown(r) /\ r[TYPE_COL] \in ShownTypes
             /\ r[CAT_COL] \notin CATEGORY_RU_MAP_KEYS) =>
              /\ Cardinality(I) = 2
              /\ r[CAT_COL] \notin CATEGORY_TARGETS =>
                   \A acc \in BothAccounts :
                      /\ \E j \in I : Cell(stmt[j], acc) =
                            Num(Sigma(LabelRows(raw_json, r[TYPE_COL], r[CAT_COL], acc), IN_COL))
                      /\ \E j \in I : Cell(stmt[j], acc) =
                            Num(0 - Sigma(LabelRows(raw_json, r[TYPE_COL], r[CAT_COL], acc), OUT_COL))

\* the label sales (not a key) stays beside Vyruchka, the canonical label of Sales
C10_Witness ==
    /\ ~day_mode /\ DetBuilt
    /\ \E i, j \in DOMAIN raw_json.data :
          /\ raw_json.data[i] = Mov(RU_ACCOUNT_MAIN, OPERATIONAL, "sales", Num(11), Num(0))
          /\ raw_json.data[j][CAT_COL] = "Sales" /\ IsKnown(raw_json.data[j])
          /\ raw_json.data[j][TYPE_COL] = OPERATIONAL
    /\ \E i \in DOMAIN res : res[i].Level1 = "sales" /\ res[i].Main = Num(11)
    /\ Idx(res, LABEL_OPERATIONAL, CAT_VYRUCHKA) # {}

---------------------------------------------------------------------------
(* Responses of other shapes: the JSON rows lack a field, or there is no row *)

MaxShapeRows == 2   \* rows of a snapshot whose rows lack a field

\* the value a row reads in a column its JSON object lacks
missing_cell(c) == IF c \in NUMERIC_COLS THEN NaN ELSE IF c = ACC_COL THEN NoAccount ELSE None

shaped(row, cols) == [c \in ALL_COLS |-> IF c \in cols THEN row[c] ELSE missing_cell(c)]

AMOUNT_COLS == {IN_COL, OUT_COL, START_COL, FINAL_COL}

\* the sets of fields the rows of a response carry
Shapes ==
    {ALL_COLS, ALL_COLS \ {ACC_COL}, ALL_COLS \ AMOUNT_COLS, ALL_COLS \ {CAT_COL}}
    \cup {ALL_COLS \ {c} : c \in AMOUNT_COLS}

ShapePool ==
    {Bal(RU_ACCOUNT_MAIN, Num(1000), Num(1200)), Bal(RU_ACCOUNT_TRADES, Num(30), Num(40)),
     Mov(RU_ACCOUNT_MAIN, OPERATIONAL, "Sales", Num(500), Num(200)),
     Mov(RU_ACCOUNT_MAIN, OPERATIONAL, "Rent", Num(70), Num(20)),
     Mov(EN_ACCOUNT_TRADES, FINANCE, "Loan", Num(40), Num(10))}

\* pd.json_normalize([]) has no column at all
ShapedSnapshots(pool, n) ==
    {[columns |-> IF snap.data = <<>> THEN {} ELSE cols,
      data |-> [i \in DOMAIN snap.data |-> shaped(snap.data[i], cols)]] :
        snap \in Snapshots(pool, n), cols \in Shapes}

ShapeSnapshots == ShapedSnapshots(ShapePool, MaxShapeRows)

PrevShapePool == {Bal(RU_ACCOUNT_MAIN, Num(900), Num(1000))}
PrevShapeSnapshots == ShapedSnapshots(PrevShapePool, 1)

FetchPrevDayShaped ==
    /\ pc = "fetch_prev"
    /\ \E snap \in PrevShapeSnapshots : raw_json_prev' = snap
    /\ pc' = "fetch_day"
    /\ UNCHANGED <<layout_vars, requests, day_mode, raw_json, res, det, error, handler_vars, delivery_vars>>

FetchSelectedDayShaped ==
    /\ pc = "fetch_day"
    /\ \E snap \in ShapeSnapshots : raw_json' = snap
    /\ pc' = "build_res"
    /\ UNCHANGED <<layout_vars, requests, day_mode, raw_json_prev, res, det, error, handler_vars, delivery_vars>>

FetchPeriodShaped ==
    /\ pc = "fetch_period"
    /\ \E snap \in ShapeSnapshots : raw_json' = snap
    /\ pc' = "build_res"
    /\ UNCHANGED <<layout_vars, requests, day_mode, raw_json_prev, res, det, error, handler_vars, delivery_vars>>

NextShape ==
    \/ CashflowCommand
    \/ FetchPrevDayShaped
    \/ FetchSelectedDayShaped
    \/ FetchPeriodShaped
    \/ BuildTables
    \/ BuildDetailedTable
    \/ BuildTablesForDay
    \/ BuildDetailedTableForDay

SpecShape == Init /\ [][NextShape]_vars

---------------------------------------------------------------------------
Fetched == pc \in {"build_res", "build_det", "built", "failed"}

\* every fetched response has rows and none of them has the account-name field
NoAccountField ==
    /\ Fetched
    /\ raw_json.data # <<>> /\ ACC_COL \notin raw_json.columns
    /\ day_mode => (raw_json_prev.data # <<>> /\ ACC_COL \notin raw_json_prev.columns)

ZeroBalances(stmt) ==
    /\ Len(stmt) = 2
    /\ stmt[1].TypeLabel = LABEL_START /\ stmt[2].TypeLabel = LABEL_END
    /\ \A i \in 1 .. 2 :
         stmt[i].Main = Num(0) /\ stmt[i].Trades = Num(0) /\ stmt[i].Total = Num(0)

\* C11: when the fetched rows have no account-name field, every row is removed,
\* no builder raises, and each statement is exactly the opening and the closing
\* row with 0 for both accounts and 0 total.
C11_NoAccountFieldGivesZeroStatement ==
    NoAccountField =>
        /\ error = "none"
        /\ \A stmt \in Statements : ZeroBalances(stmt)

\* C11 without the builder that raises: the two period builders and the summary
\* builder of the day return the two zero rows
C11_ThreeBuildersGiveZeroStatement ==
    NoAccountField =>
        /\ \A stmt \in Statements : ZeroBalances(stmt)
        /\ pc = "build_det" => ResBuilt
        /\ (pc = "built" /\ ~day_mode) => (ResBuilt /\ DetBuilt)
        /\ error # "none" => (day_mode /\ pc = "failed" /\ ResBuilt /\ ~DetBuilt)

\* a period request over rows without the field, both statements built
C11_Witness ==
    /\ NoAccountField /\ ~day_mode /\ pc = "built"
    /\ ZeroBalances(res) /\ ZeroBalances(det)
    /\ \E i \in DOMAIN raw_json.data : IsMovement(raw_json.data[i])

\* a numeric field is absent from the fetched rows, or there is no row
LacksNumericField(raw) == raw.data = <<>> \/ AMOUNT_COLS \ raw.columns # {}

\* the snapshot with every absent numeric field present and 0 in every row
ZeroFilled(raw) ==
    [columns |-> raw.columns \cup AMOUNT_COLS,
     data |-> [i \in DOMAIN raw.data |->
                 [c \in ALL_COLS |-> IF c \in AMOUNT_COLS \ raw.columns
                                     THEN Num(0) ELSE raw.data[i][c]]]]

\* C12: every builder completes without raising for any input shape: when the
\* fetched rows lack Sum.Incoming, Sum.Outgoing, StartBalance.Money or
\* FinalBalance.Money, or the data list is empty, a statement with the opening
\* and the closing row is still returned.
C12_BuildersCompleteForAnyShape ==
    (Fetched /\ LacksNumericField(raw_json)) =>
        /\ error = "none"
        /\ \A stmt \in Statements :
             stmt[1].TypeLabel = LABEL_START /\ stmt[Len(stmt)].TypeLabel = LABEL_END

\* C12 where it holds: the period builders and the summary builder of the day
\* complete, with the absent field counting as 0 in every row; the detailed
\* builder of the day completes iff the day has a movement row.
C12_MissingFieldCountsAsZero ==
    (Fetched /\ LacksNumericField(raw_json)) =>
        /\ ResBuilt =>
             res = IF day_mode
                   THEN build_cashflow_tables_for_day(ZeroFilled(raw_json), ZeroFilled(raw_json_prev))
                   ELSE build_cashflow_tables(ZeroFilled(raw_json))
        /\ (DetBuilt /\ ~day_mode) => det = build_cashflow_detailed_table(ZeroFilled(raw_json))
        /\ pc \in {"built", "failed"} => ResBuilt
        /\ pc = "failed" <=> (day_mode /\ error = "TypeError")
        /\ error = "TypeError" =>
             \A i \in DOMAIN raw_json.data :
                 ~(IsMovement(raw_json.data[i]) /\ IsKnown(raw_json.data[i]))

\* a day request whose selected day has no row at all: the summary statement is
\* built and the detailed builder raises
C12_Witness ==
    /\ day_mode /\ pc = "failed" /\ raw_json.data = <<>>
    /\ ResBuilt /\ ~DetBuilt /\ error = "TypeError"

---------------------------------------------------------------------------
\* the (activity type, category, account) keys of the movement rows of a snapshot
MovementKeys(raw) ==
    {<<raw.data[i][TYPE_COL], raw.data[i][CAT_COL], AccountOf(raw.data[i])>> :
        i \in {j \in DOMAIN raw.data : IsMovement(raw.data[j]) /\ IsKnown(raw.data[j])}}

\* the movement rows of one key
KeyRows(raw, key) ==
    SelectSeq(raw.data, LAMBDA r : /\ IsMovement(r) /\ r[TYPE_COL] = key[1]
                                   /\ r[CAT_COL] = key[2] /\ AccountOf(r) = key[3])

\* some row of the key carries the amount
HasAmount(raw, key, col) ==
    \E i \in DOMAIN KeyRows(raw, key) : KeyRows(raw, key)[i][col] # NaN

DailyMovement(col) ==
    calculate_daily_movement(flow_rows(prepare(raw_json)), flow_rows(prepare(raw_json_prev)), col)

OuterJoinDifference(col) ==
    LET daily == DailyMovement(col)
        keys == MovementKeys(raw_json) \cup MovementKeys(raw_json_prev)
    IN  /\ daily.index = {<<k[1], k[2]>> : k \in keys}
        /\ \A k \in keys :
             /\ k[3] \in daily.columns
             /\ LET cell == daily.val[<<k[1], k[2]>>, k[3]]
                    diff == Sigma(KeyRows(raw_json, k), col) - Sigma(KeyRows(raw_json_prev, k), col)
                IN  IF HasAmount(raw_json, k, col) \/ HasAmount(raw_json_prev, k, col)
                    THEN cell = Num(diff)
                    ELSE cell \in {NaN, Num(0)} /\ diff = 0

\* C13: for every (activity type, category, account) key of the current or of the
\* previous snapshot calculate_daily_movement returns the current cumulative sum
\* minus the previous one, a snapshot without the key counting as 0, for incoming
\* and for outgoing independently (a key none of whose rows carries the amount in
\* either snapshot has the difference 0 or a missing cell).
C13_DailyMovementIsOuterJoinDifference ==
    (day_mode /\ Fetched) => (OuterJoinDifference(IN_COL) /\ OuterJoinDifference(OUT_COL))

\* previous 300, current 450 gives 150; a key of the previous snapshot alone gives
\* minus its previous sum
C13_Witness ==
    /\ day_mode /\ Fetched
    /\ <<OPERATIONAL, "Rent", RU_ACCOUNT_TRADES>> \in MovementKeys(raw_json_prev) \ MovementKeys(raw_json)
    /\ <<OPERATIONAL, "Sales", RU_ACCOUNT_MAIN>> \in MovementKeys(raw_json_prev) \cap MovementKeys(raw_json)
    /\ DailyMovement(IN_COL).val[<<OPERATIONAL, "Sales">>, RU_ACCOUNT_MAIN] = Num(150)
    /\ DailyMovement(OUT_COL).val[<<OPERATIONAL, "Sales">>, RU_ACCOUNT_MAIN] = Num(40)
    /\ DailyMovement(IN_COL).val[<<OPERATIONAL, "Rent">>, RU_ACCOUNT_TRADES] = Num(0 - 20)

\* C14: in both day builders the opening balance of each account is the sum of
\* FinalBalance.Money over the balance rows of the account in the previous
\* snapshot, 0 without one; StartBalance.Money of the selected day plays no part.
C14_DayOpeningIsPreviousClosing ==
    day_mode =>
      \A stmt \in Statements : \A acc \in BothAccounts :
        Opening(stmt, acc) = Num(Sigma(BalanceRows(raw_json_prev, acc), FINAL_COL))

\* the selected day reports a start balance of the main account and the previous
\* day has balance rows of the trade account only
C14_Witness ==
    /\ day_mode /\ DetBuilt
    /\ \E i \in DOMAIN raw_json.data : raw_json.data[i] = Bal(RU_ACCOUNT_MAIN, Num(1000), Num(1200))
    /\ raw_json_prev.data = <<Bal(RU_ACCOUNT_TRADES, Num(25), Num(30)), Bal(RU_ACCOUNT_TRADES, Num(25), Num(30))>>
    /\ Opening(res, RU_ACCOUNT_MAIN) = Num(0) /\ Opening(det, RU_ACCOUNT_MAIN) = Num(0)
    /\ Opening(res, RU_ACCOUNT_TRADES) = Num(60) /\ Opening(det, RU_ACCOUNT_TRADES) = Num(60)

---------------------------------------------------------------------------
(* The whole command: date arguments, fetches, exports, message, delivery *)
(*                                                                         *)
(* A date is its day number.  The text of an argument is <<"iso", d>>, the *)
(* ISO form of day d, or <<"junk", n>>, a text that is no date; isoformat  *)
(* and fromisoformat convert between the two.                              *)

MaxDate == 3    \* the days a user can name are 1 .. MaxDate
MaxArgs == 3    \* number of arguments of the command
MaxBotRows == 2 \* rows of a snapshot of a delivered report

Dates == 1 .. MaxDate
Junk == <<"junk", 1>>
ArgTexts == {<<"iso", d>> : d \in Dates} \cup {Junk}
\* every list of at most two texts; of the longer lists, which the command
\* ignores whatever they hold, one of each length
ArgLists ==
    UNION {[1 .. n -> ArgTexts] : n \in 0 .. 2}
    \cup {[i \in 1 .. n |-> Junk] : n \in 3 .. MaxArgs}

isoformat(d) == <<"iso", d>>
\* date.fromisoformat raises ValueError on a text that is no date
parses(text) == text[1] = "iso"
fromisoformat(text) == text[2]

\* bot.py 61-62 without the exchange
normalize_order_kept(dfrom, dto) == <<dfrom, dto>>

\* bot.py 61-62: if dfrom > dto: dfrom, dto = dto, dfrom
normalize_order(dfrom, dto) == IF dfrom > dto THEN <<dto, dfrom>> ELSE <<dfrom, dto>>

Parsed(mode, from, to) == [error |-> "none", day_mode |-> mode, date_from |-> from, date_to |-> to]
Raised(e) == [error |-> e, day_mode |-> FALSE, date_from |-> NoDate, date_to |-> NoDate]

\* bot.py 43-47 and 52-56: the day before the named day, and the named day
single_day(day) ==
    IF parses(day)
    THEN Parsed(TRUE, isoformat(fromisoformat(day) - 1), day)
    ELSE Raised("ValueError")

\* bot.py 40-70: the interval and the mode the arguments select
parse_args(a, today) ==
    IF Len(a) = 1 THEN single_day(a[1])
    ELSE IF Len(a) = 2 THEN
        IF a[1] = a[2] THEN single_day(a[1])
        ELSE IF ~parses(a[1]) \/ ~parses(a[2]) THEN Raised("ValueError")
        ELSE LET o == normalize_order(fromisoformat(a[1]), fromisoformat(a[2]))
             IN  Parsed(FALSE, isoformat(o[1]), isoformat(o[2]))
    ELSE Parsed(FALSE, isoformat(today - 1), isoformat(today))

\* bot.py 40-77, all of it before the try block: an exception here leaves the
\* handler.  The "preparing" notice is one reply_text call, not retried.
CashflowCommandArgs ==
    /\ pc = "idle"
    /\ \E a \in ArgLists, today \in Dates, notice \in {"ok", "TimedOut"} :
         LET p == parse_args(a, today)
         IN  /\ args' = a
             /\ IF p.error # "none"
                THEN /\ error' = p.error
                     /\ pc' = "raised"
                     /\ UNCHANGED <<day_mode, date_from, date_to, sent>>
                ELSE /\ day_mode' = p.day_mode
                     /\ date_from' = p.date_from
                     /\ date_to' = p.date_to
                     /\ IF notice = "ok"
                        THEN /\ sent' = Append(sent, [kind |-> "notice", body |-> <<>>])
                             /\ pc' = IF p.day_mode THEN "fetch_prev" ELSE "fetch_period"
                             /\ error' = error
                        ELSE /\ sent' = sent
                             /\ pc' = "raised"
                             /\ error' = notice
    /\ UNCHANGED <<layout_vars, requests, raw_json, raw_json_prev, res, det, fetched, export_vars, message_text, reply_vars>>

BotPool ==
    {Bal(RU_ACCOUNT_MAIN, Num(1000), Num(1200)),
     Mov(RU_ACCOUNT_MAIN, OPERATIONAL, "Sales", Num(500), Num(200))}
BotPrevPool == {Bal(RU_ACCOUNT_MAIN, Num(900), Num(1000))}
BotSnapshots == Snapshots(BotPool, MaxBotRows)
BotPrevSnapshots == Snapshots(BotPrevPool, 1)

\* client.fetch_olap_transactions(date_from, date_to): the interval asked for is
\* recorded; resp.raise_for_status() raises inside the try block
fetch_olap_transactions(from, to) == Append(fetched, <<from, to>>)

\* bot.py 85
next_day == isoformat(fromisoformat(date_to) + 1)

FetchPrevDayInterval ==
    /\ pc = "fetch_prev"
    /\ fetched' = fetch_olap_transactions(date_from, date_to)
    /\ \/ /\ \E snap \in BotPrevSnapshots : raw_json_prev' = snap
          /\ pc' = "fetch_day"
          /\ error' = error
       \/ /\ raw_json_prev' = raw_json_prev
          /\ pc' = "failed"
          /\ error' = "HTTPError"
    /\ UNCHANGED <<layout_vars, requests, day_mode, raw_json, res, det, args, date_from, date_to, delivery_vars>>

FetchSelectedDayInterval ==
    /\ pc = "fetch_day"
    /\ fetched' = fetch_olap_transactions(date_to, next_day)
    /\ \/ /\ \E snap \in BotSnapshots : raw_json' = snap
          /\ pc' = "build_res"
          /\ error' = error
       \/ /\ raw_json' = raw_json
          /\ pc' = "failed"
          /\ error' = "HTTPError"
    /\ UNCHANGED <<layout_vars, requests, day_mode, raw_json_prev, res, det, args, date_from, date_to, delivery_vars>>

FetchPeriodInterval ==
    /\ pc = "fetch_period"
    /\ fetched' = fetch_olap_transactions(date_from, date_to)
    /\ \/ /\ \E snap \in BotSnapshots : raw_json' = snap
          /\ pc' = "build_res"
          /\ error' = error
       \/ /\ raw_json' = raw_json
          /\ pc' = "failed"
          /\ error' = "HTTPError"
    /\ UNCHANGED <<layout_vars, requests, day_mode, raw_json_prev, res, det, args, date_from, date_to, delivery_vars>>

---------------------------------------------------------------------------
(* The spreadsheet layout: build_excel_cashflow_table and build_full_cashflow_tree *)

LABEL_BALANCES == "Obshchie ostatki po kassam"
LABEL_OPERATIONAL_TOTAL == "Operacionnaya deyatelnost vsego"
LABEL_TOTAL == "Itogo"
CAT_NAKLADNYE == "Oplata nakladnyh"
CAT_TRUD == "Oplata truda"
CAT_PODOTCHET == "Podotchet"
CAT_PREDOPLATA == "Predoplata"

\* cashflow.py 713-741: the rows of the two canonical accounts; a missing amount
\* is read as 0.0 (to_numeric(...).fillna(0.0)) by Sigma
layout_rows(raw) == normalize_accounts(json_normalize(raw)).rows

l1_isna(r) == CAT_COL \notin DOMAIN r \/ r[CAT_COL] = None

\* cashflow.py 762-763: start_by_acc.get(acc, 0)
start_by_acc(prev, acc) ==
    Sigma(SelectSeq(prev, LAMBDA r : l1_isna(r) /\ r[NORM_COL] = acc), FINAL_COL)

\* cashflow.py 766-769: end_by_acc is start_by_acc when the current snapshot has
\* no balance row
end_by_acc(prev, curr, acc) ==
    IF SelectSeq(curr, l1_isna) = <<>>
    THEN start_by_acc(prev, acc)
    ELSE Sigma(SelectSeq(curr, LAMBDA r : l1_isna(r) /\ r[NORM_COL] = acc), FINAL_COL)

\* cashflow.py 857-864
l1_synonyms(ru_label) ==
    {ru_label} \cup {k \in CATEGORY_RU_MAP_KEYS : CATEGORY_RU_MAP(k) = ru_label}

\* cashflow.py 867-882: excel_get_val over the dict of the sums of col by (account,
\* level 1) of the rows that have a level 1
excel_get_val(rows, col, acc, ru_label) ==
    Sigma(SelectSeq(rows, LAMBDA r : /\ ~l1_isna(r)
                                     /\ r[NORM_COL] = acc
                                     /\ r[CAT_COL] \in l1_synonyms(ru_label)), col)

\* cashflow.py 799-829: add_row of build_excel_cashflow_table; the trades values go to J, L, M, N and the main values to
\* E, G, H, I
excel_add_row(type_text, l1, start_trade, in_trade, out_trade, fin_trade, start_main, in_main, out_main, fin_main) ==
    [TypeLabel |-> type_text,
     Level1 |-> IF l1 = None THEN "" ELSE CATEGORY_RU_MAP(l1),
     Level2 |-> "", Level3 |-> "",
     E |-> start_main, F |-> "", G |-> in_main, H |-> out_main, I |-> fin_main,
     J |-> start_trade, K |-> "", L |-> in_trade, M |-> out_trade, N |-> fin_trade,
     O |-> start_trade + start_main, P |-> in_trade + in_main,
     Q |-> out_trade + out_main, R |-> fin_trade + fin_main]

RECURSIVE sum_list(_, _)
\* pd.DataFrame(op_rows)[col].sum()
sum_list(op_rows, col) ==
    IF op_rows = <<>> THEN 0 ELSE Head(op_rows)[col] + sum_list(Tail(op_rows), col)

\* cashflow.py 944-976: row 18 is the sum of rows 9, 16 and 17
total_row(r9, r16, r17) ==
    excel_add_row(LABEL_TOTAL, None,
                  r9.J + r16.J + r17.J, r9.L + r16.L + r17.L,
                  r9.M + r16.M + r17.M, r9.N + r16.N + r17.N,
                  r9.E + r16.E + r17.E, r9.G + r16.G + r17.G,
                  r9.H + r16.H + r17.H, r9.I + r16.I + r17.I)

\* cashflow.py 944-955: row 16 is the sum of the six operational rows
operational_total_row(op_rows) ==
    excel_add_row(LABEL_OPERATIONAL_TOTAL, None,
                  sum_list(op_rows, "J"), sum_list(op_rows, "L"),
                  sum_list(op_rows, "M"), sum_list(op_rows, "N"),
                  sum_list(op_rows, "E"), sum_list(op_rows, "G"),
                  sum_list(op_rows, "H"), sum_list(op_rows, "I"))

\* the rows in the order add_row appends them
with_total_rows(r9, op_rows, r17) ==
    <<r9>> \o op_rows
    \o <<operational_total_row(op_rows), r17,
          total_row(r9, operational_total_row(op_rows), r17)>>

\* cashflow.py 701-1000
build_excel_cashflow_table(json_prev, json_curr) ==
    LET prev == layout_rows(json_prev)
        curr == layout_rows(json_curr)
        T == RU_ACCOUNT_TRADES
        M == RU_ACCOUNT_MAIN
        prev_fb(acc, l1) == excel_get_val(prev, FINAL_COL, acc, l1)
        curr_fb(acc, l1) == excel_get_val(curr, FINAL_COL, acc, l1)
        curr_in(acc, l1) == excel_get_val(curr, IN_COL, acc, l1)
        curr_out(acc, l1) == excel_get_val(curr, OUT_COL, acc, l1)
        r9 == excel_add_row(LABEL_BALANCES, None,
                      start_by_acc(prev, T), 0, 0, end_by_acc(prev, curr, T),
                      start_by_acc(prev, M), 0, 0, end_by_acc(prev, curr, M))
        r10 == excel_add_row(LABEL_OPERATIONAL, CAT_PEREMESHCHENIE,
                       prev_fb(T, CAT_PEREMESHCHENIE), 0, curr_out(T, CAT_PEREMESHCHENIE),
                       curr_fb(T, CAT_PEREMESHCHENIE),
                       prev_fb(M, CAT_PEREMESHCHENIE), curr_in(M, CAT_PEREMESHCHENIE), 0,
                       curr_fb(M, CAT_PEREMESHCHENIE))
        r11 == excel_add_row("", CAT_VYRUCHKA,
                       prev_fb(T, CAT_VYRUCHKA), curr_in(T, CAT_VYRUCHKA), 0,
                       curr_fb(T, CAT_VYRUCHKA),
                       0, 0, 0, 0)
        r12 == excel_add_row("", CAT_NAKLADNYE,
                       prev_fb(T, CAT_NAKLADNYE), 0, 0, curr_fb(T, CAT_NAKLADNYE),
                       prev_fb(M, CAT_NAKLADNYE), 0, 0, curr_fb(M, CAT_NAKLADNYE))
        r13 == excel_add_row("", CAT_TRUD,
                       0, 0, 0, 0,
                       prev_fb(M, CAT_TRUD), 0, 0, curr_fb(M, CAT_TRUD))
        r14 == excel_add_row("", CAT_PODOTCHET,
                       prev_fb(T, CAT_PODOTCHET), 0, 0, curr_fb(T, CAT_PODOTCHET),
                       prev_fb(M, CAT_PODOTCHET), 0, curr_out(M, CAT_PODOTCHET),
                       curr_fb(M, CAT_PODOTCHET))
        r15 == excel_add_row("", CAT_PREDOPLATA,
                       prev_fb(T, CAT_PREDOPLATA), 0, 0, curr_fb(T, CAT_PREDOPLATA),
                       0, 0, 0, 0)
        r17 == excel_add_row(LABEL_FINANCE, CAT_ZAIM,
                       0, 0, 0, 0,
                       prev_fb(M, CAT_ZAIM), 0, 0, curr_fb(M, CAT_ZAIM))
    IN  with_total_rows(r9, <<r10, r11, r12, r13, r14, r15>>, r17)

\* cashflow.py 1100-1105
cash_names == <<RU_ACCOUNT_MAIN, RU_ACCOUNT_TRADES>>
cash_columns(cash_name) ==
    IF cash_name = RU_ACCOUNT_MAIN THEN <<"E", "G", "H", "I">> ELSE <<"J", "L", "M", "N">>

\* cashflow.py 1151-1154: the labels of the four leaves
METRIC_LABELS ==
    <<"Nachalny denezhny ostatok", "Summa prihoda", "Summa rashoda", "Konechny denezhny ostatok">>

\* f"{val:,.2f}"
fmt_2f(val) == <<"2f", val>>

\* A nested dict is the sequence of its leaves, [path, val], in the order they
\* were first set: the keys of a node are the next keys of the leaves below it,
\* in the order of their first leaf.

\* the members of a set of positions, in ascending order
Ascending(S) ==
    [k \in 1 .. Cardinality(S) |-> CHOOSE i \in S : Cardinality({j \in S : j < i}) = k - 1]

\* cashflow.py 1137-1149: the labels of a row that are not empty name its node
\* (the labels of the table have no blank around them)
row_path(row) ==
    SelectSeq(<<row.TypeLabel, row.Level1, row.Level2, row.Level3>>, LAMBDA l : l # "")

\* cashflow.py 1136-1156: the assignments node_lvl[label] = row.get(col_name, 0.0)
\* in the order the loops make them, four for each row of the table
leaf_assignments(tbl, cash_name) ==
    [n \in 1 .. (4 * Len(tbl)) |->
        LET i == ((n - 1) \div 4) + 1
            k == ((n - 1) % 4) + 1
        IN  [path |-> Append(row_path(tbl[i]), METRIC_LABELS[k]),
             val |-> tbl[i][cash_columns(cash_name)[k]]]]

\* cashflow.py 1134-1158: a leaf keeps the place of its first assignment and the
\* value of its last one
build_tree_for_cash(tbl, cash_name) ==
    LET sets == leaf_assignments(tbl, cash_name)
        firsts == {n \in DOMAIN sets : \A m \in 1 .. (n - 1) : sets[m].path # sets[n].path}
        order == Ascending(firsts)
        last(path) == CHOOSE n \in DOMAIN sets :
                          /\ sets[n].path = path
                          /\ \A m \in DOMAIN sets : sets[m].path = path => m <= n
    IN  [q \in DOMAIN order |->
            [path |-> sets[order[q]].path, val |-> sets[last(sets[order[q]].path)].val]]

IsPrefix(p, q) == Len(p) <= Len(q) /\ SubSeq(q, 1, Len(p)) = p

\* list(node.keys()) of the node at path p
first_keys(tree, p) ==
    LET below == {i \in DOMAIN tree : IsPrefix(p, tree[i].path) /\ Len(tree[i].path) > Len(p)}
        key(i) == tree[i].path[Len(p) + 1]
        firsts == {i \in below : \A j \in below : j < i => key(j) # key(i)}
        order == Ascending(firsts)
    IN  [q \in DOMAIN order |-> key(order[q])]

\* cashflow.py 1116-1119: a node that has the key of the total lists that key alone
node_keys(tree, p) ==
    LET keys == first_keys(tree, p)
    IN  IF \E i \in DOMAIN keys : keys[i] = LABEL_TOTAL THEN <<LABEL_TOTAL>> ELSE keys

TextLine(prefix, pointer, key, val) ==
    [head |-> <<>>, prefix |-> prefix, pointer |-> pointer, key |-> key, val |-> val]
HeadLine(head) == [head |-> head, prefix |-> <<>>, pointer |-> "", key |-> "", val |-> NaN]

RECURSIVE tree_to_text(_, _, _)
RECURSIVE keys_to_text(_, _, _, _, _)
\* cashflow.py 1121-1130: the lines of the keys i .. of the node at path p
keys_to_text(tree, p, prefix, keys, i) ==
    IF i > Len(keys) THEN <<>>
    ELSE LET key == keys[i]
             is_last == i = Len(keys)
             pointer == IF is_last THEN "L--" ELSE "|--"
             here == Append(p, key)
             leaf == SelectSeq(tree, LAMBDA e : e.path = here)
         IN  (IF leaf = <<>>
              THEN <<TextLine(prefix, pointer, key, NaN)>>
                   \o tree_to_text(tree, here, Append(prefix, IF is_last THEN "    " ELSE "|   "))
              ELSE <<TextLine(prefix, pointer, key, fmt_2f(leaf[1].val))>>)
             \o keys_to_text(tree, p, prefix, keys, i + 1)

\* cashflow.py 1113-1131
tree_to_text(tree, p, prefix) == keys_to_text(tree, p, prefix, node_keys(tree, p), 1)

\* cashflow.py 1099-1167: the lines joined by "\n"
build_full_cashflow_tree(tbl, date_str) ==
    <<HeadLine(<<"Data", date_str>>)>>
    \o flatten([c \in DOMAIN cash_names |->
                  <<HeadLine(cash_names[c])>>
                  \o tree_to_text(build_tree_for_cash(tbl, cash_names[c]), <<>>, <<"    ">>)])

---------------------------------------------------------------------------
(* Spreadsheet export with a timestamp-suffixed alternate filename *)

PIVOT_PATH == "cashflow_pivot.xlsx"         \* default path of export_to_excel
DETAILED_PATH == "cashflow_detailed.xlsx"   \* bot.py 96, 103

\* datetime.now().strftime("%Y%m%d_%H%M%S")
Timestamps == {"20251002_090000", "20251002_090001"}

\* why the write to the target path raises PermissionError, if it does: the file
\* is held open by another process, or the directory refuses every write
WriteFaults == {"none", "locked", "readonly_dir"}

\* os.path.splitext
splitext(path) ==
    CASE path = PIVOT_PATH -> <<"cashflow_pivot", ".xlsx">>
      [] path = DETAILED_PATH -> <<"cashflow_detailed", ".xlsx">>
      [] path = "01.10.2025.xlsx" -> <<"01.10.2025", ".xlsx">>
      [] path = "report.xls" -> <<"report", ".xls">>
      [] OTHER -> <<path, "">>

\* f"{root}_{ts}{ext}" with ext = ext or ".xlsx"
alt_path(path, ts) ==
    LET root == splitext(path)[1]
        ext == IF splitext(path)[2] = "" THEN ".xlsx" ELSE splitext(path)[2]
    IN  root \o "_" \o ts \o ext

\* DataFrame.to_excel(path) / Workbook.save(path): the file holds the content
to_excel(fs, path, content) ==
    [q \in DOMAIN fs \cup {path} |-> IF q = path THEN content ELSE fs[q]]

\* a file another process holds open exists, with the sheet of an earlier run
StaleSheet == <<>>
held_open(fs, path, fault) ==
    IF fault = "locked" /\ path \notin DOMAIN fs THEN to_excel(fs, path, StaleSheet) ELSE fs

\* the fallback returning the path it was asked to write
save_with_fallback_original_path(fs, content, path, fault, ts) ==
    IF fault = "none"
    THEN [files |-> to_excel(fs, path, content), path |-> path, error |-> "none"]
    ELSE IF fault = "locked"
    THEN [files |-> to_excel(fs, alt_path(path, ts), content), path |-> path, error |-> "none"]
    ELSE [files |-> fs, path |-> NoPath, error |-> "PermissionError"]

\* cashflow.py 674-685 and 1085-1095: try the path; on PermissionError write the
\* alternate path, outside any handler, and return it
save_with_fallback(fs, content, path, fault, ts) ==
    IF fault = "none"
    THEN [files |-> to_excel(fs, path, content), path |-> path, error |-> "none"]
    ELSE IF fault = "locked"
    THEN [files |-> to_excel(fs, alt_path(path, ts), content),
          path |-> alt_path(path, ts), error |-> "none"]
    ELSE [files |-> fs, path |-> NoPath, error |-> "PermissionError"]

export_to_excel(fs, result, path, fault, ts) == save_with_fallback(fs, result, path, fault, ts)

\* cashflow.py 1006-1016: the caption of the sheet and the default file name
DateCaptions == {"2025-10-01"}
date_caption_fmt(date_caption) == IF date_caption = "2025-10-01" THEN "01.10.2025" ELSE date_caption
WorkbookPaths == {"", "report", "report.xls"}
default_path(path, date_caption) ==
    IF path = "" THEN date_caption_fmt(date_caption) \o ".xlsx" ELSE path

\* cashflow.py 1037-1043: the merged group headers of row 6
GROUP_HEADERS ==
    <<[value |-> RU_ACCOUNT_MAIN, first |-> "E", last |-> "I"],
      [value |-> RU_ACCOUNT_TRADES, first |-> "J", last |-> "N"],
      [value |-> <<"I", "t", "o", "g", "o">>, first |-> "O", last |-> "R"]>>

\* cashflow.py 1006, 1029-1080: the workbook holds the caption, the group
\* headers and the rows of the table
Workbook(json_prev, json_curr, date_caption) ==
    <<date_caption_fmt(date_caption), GROUP_HEADERS,
      build_excel_cashflow_table(json_prev, json_curr)>>

export_excel_cashflow(fs, json_prev, json_curr, date_caption, path, fault, ts) ==
    save_with_fallback(fs, Workbook(json_prev, json_curr, date_caption),
                       default_path(path, date_caption), fault, ts)

\* excel_sum = export_to_excel(res)
ExportSummary ==
    /\ pc = "built"
    /\ \E fault \in WriteFaults, ts \in Timestamps :
         LET out == export_to_excel(held_open(files, PIVOT_PATH, fault), res, PIVOT_PATH, fault, ts)
         IN  /\ files' = out.files
             /\ excel_path' = out.path
             /\ locked' = IF fault = "locked" THEN locked \cup {PIVOT_PATH} ELSE locked
             /\ error' = out.error
             /\ pc' = IF out.error = "none" THEN "export_det" ELSE "failed"
    /\ UNCHANGED <<layout_vars, requests, day_mode, raw_json, raw_json_prev, res, det, handler_vars,
                   workbook_path, excel_detailed_path, message_text, reply_vars, sent>>

\* excel_det = export_to_excel(det, path="cashflow_detailed.xlsx")
ExportDetailed ==
    /\ pc = "export_det"
    /\ \E fault \in WriteFaults, ts \in Timestamps :
         LET out == export_to_excel(held_open(files, DETAILED_PATH, fault), det, DETAILED_PATH, fault, ts)
         IN  /\ files' = out.files
             /\ excel_detailed_path' = out.path
             /\ locked' = IF fault = "locked" THEN locked \cup {DETAILED_PATH} ELSE locked
             /\ error' = out.error
             /\ pc' = IF out.error = "none" THEN "message" ELSE "failed"
    /\ UNCHANGED <<layout_vars, requests, day_mode, raw_json, raw_json_prev, res, det, handler_vars,
                   workbook_path, excel_path, message_text, reply_vars, sent>>

\* a call of export_excel_cashflow(json_prev, json_curr, date_caption, path) from
\* outside the command (the command itself exports with export_to_excel)
ExportExcelCashflow ==
    /\ pc = "idle"
    /\ \E prev \in BotPrevSnapshots, curr \in BotSnapshots, caption \in DateCaptions,
          path \in WorkbookPaths, fault \in WriteFaults, ts \in Timestamps :
         LET target == default_path(path, caption)
             out == export_excel_cashflow(held_open(files, target, fault), prev, curr,
                                          caption, path, fault, ts)
         IN  /\ raw_json_prev' = prev
             /\ raw_json' = curr
             /\ files' = out.files
             /\ workbook_path' = out.path
             /\ locked' = IF fault = "locked" THEN locked \cup {target} ELSE locked
             /\ error' = out.error
             /\ pc' = IF out.error = "none" THEN "exported" ELSE "raised"
    /\ UNCHANGED <<layout_vars, requests, day_mode, res, det, handler_vars,
                   excel_path, excel_detailed_path, message_text, reply_vars, sent>>

---------------------------------------------------------------------------
(* The chat message *)

\* one line of the table of the message: the two label cells, the four cells
\* (opening, incoming, outgoing, closing) of each account, the total; a blank
\* cell is NaN.  The heading lines of the table are fixed text.
Blank4 == <<NaN, NaN, NaN, NaN>>
Line(label, l1, trades, main, total) ==
    [label |-> label, l1 |-> l1, trades |-> trades, main |-> main, total |-> total]

\* float(row[...]) of a cell of the statement
float(x) == x[1]

\* _fmt_date: dd.mm.YYYY of an ISO text
fmt_date(text) == <<"dmy", fromisoformat(text)>>

\* bot.py 217-223: caption_date / caption_period
caption_of(mode, from, to) == IF mode THEN <<fmt_date(to)>> ELSE <<fmt_date(from), fmt_date(to)>>

\* summary_df.index == label: the statement is pd.DataFrame(rows, columns=...), its
\* index is the positions 0 .. n-1, and no position equals a text
index_eq(summary_df, label) == {i \in DOMAIN summary_df : FALSE}

\* bot.py 157-212: the lines of the rows i .. of the statement; a holds the
\* running opening balances and the running sums of incoming and outgoing
RECURSIVE message_rows(_, _, _, _)
message_rows(summary_df, i, current_type, a) ==
    IF i > Len(summary_df) THEN <<>>
    ELSE
      LET row == summary_df[i]
          trades_val == float(row.Trades)
          main_val == float(row.Main)
          total_val == float(row.Total)
          pos(v) == Num(IF v > 0 THEN v ELSE 0)
          negpart(v) == Num(IF v < 0 THEN 0 - v ELSE 0)
      IN  IF row.TypeLabel = LABEL_START
          THEN <<Line(row.TypeLabel, row.Level1, <<Num(trades_val), NaN, NaN, NaN>>,
                      <<Num(main_val), NaN, NaN, NaN>>, Num(total_val))>>
               \o message_rows(summary_df, i + 1, current_type,
                               [a EXCEPT !.trades_start = trades_val, !.main_start = main_val])
          ELSE IF row.TypeLabel = LABEL_END
          THEN <<Line(row.TypeLabel, row.Level1,
                      <<Num(a.trades_start), Num(a.trades_in), Num(a.trades_out), Num(trades_val)>>,
                      <<Num(a.main_start), Num(a.main_in), Num(a.main_out), Num(main_val)>>,
                      Num(total_val))>>
               \o message_rows(summary_df, i + 1, current_type, a)
          ELSE
            LET header == IF row.TypeLabel # current_type
                          THEN <<Line(row.TypeLabel, "", Blank4, Blank4, NaN)>>
                          ELSE <<>>
                movement == IF row.Level1 # ""
                            THEN <<Line("", row.Level1,
                                        <<NaN, pos(trades_val), negpart(trades_val), NaN>>,
                                        <<NaN, pos(main_val), negpart(main_val), NaN>>,
                                        Num(total_val))>>
                            ELSE <<>>
                a2 == IF row.Level1 = "" THEN a
                      ELSE [a EXCEPT
                              !.trades_in = IF trades_val > 0 THEN @ + trades_val ELSE @,
                              !.trades_out = IF trades_val > 0 THEN @ ELSE @ - trades_val,
                              !.main_in = IF main_val > 0 THEN @ + main_val ELSE @,
                              !.main_out = IF main_val > 0 THEN @ ELSE @ - main_val]
            IN  header \o movement \o message_rows(summary_df, i + 1, row.TypeLabel, a2)

\* bot.py 135-154: the block of a statement of at most two rows.  .iloc[0] of the
\* rows the mask selects raises IndexError when the mask selects none.
balances_only(summary_df) ==
    IF index_eq(summary_df, LABEL_START) = {} \/ index_eq(summary_df, LABEL_END) = {}
    THEN [error |-> "IndexError", lines |-> <<>>]
    ELSE LET s == summary_df[CHOOSE i \in index_eq(summary_df, LABEL_START) :
                               \A j \in index_eq(summary_df, LABEL_START) : i <= j]
             e == summary_df[CHOOSE i \in index_eq(summary_df, LABEL_END) :
                               \A j \in index_eq(summary_df, LABEL_END) : i <= j]
         IN  [error |-> "none",
              lines |-> <<Line(LABEL_START, "",
                               <<s.Trades, Num(0), Num(0), s.Trades>>,
                               <<s.Main, Num(0), Num(0), s.Main>>,
                               Num(float(s.Main) + float(s.Trades))),
                          Line(LABEL_END, "",
                               <<s.Trades, Num(0), Num(0), e.Trades>>,
                               <<s.Main, Num(0), Num(0), e.Main>>,
                               Num(float(e.Main) + float(e.Trades)))>>]

\* bot.py 119-215, called with the summary statement as summary_df
build_message_from_df(summary_df, caption) ==
    IF Len(summary_df) <= 2
    THEN LET b == balances_only(summary_df)
         IN  [error |-> b.error,
              lines |-> IF b.error = "none"
                        THEN <<Line("caption", caption, Blank4, Blank4, NaN)>> \o b.lines
                        ELSE <<>>]
    ELSE [error |-> "none",
          lines |-> <<Line("caption", caption, Blank4, Blank4, NaN)>>
                    \o message_rows(summary_df, 1, None,
                                    [trades_start |-> 0, trades_in |-> 0, trades_out |-> 0,
                                     main_start |-> 0, main_in |-> 0, main_out |-> 0])]

\* bot.py 217-223
BuildMessage ==
    /\ pc = "message"
    /\ LET m == build_message_from_df(res, caption_of(day_mode, date_from, date_to))
       IN  /\ message_text' = m.lines
           /\ error' = m.error
           /\ pc' = IF m.error = "none" THEN "send_html" ELSE "failed"
    /\ UNCHANGED <<layout_vars, requests, day_mode, raw_json, raw_json_prev, res, det, handler_vars,
                   export_vars, reply_vars, sent>>

---------------------------------------------------------------------------
(* Delivery: safe_reply_html, safe_reply_document and the error reply *)

RETRIES == 2        \* retries: int = 2
DELAY_BASE == 2     \* delay_base: float = 2.0

\* how one reply call of the Telegram client ends
ReplyOutcomes == {"ok", "TimedOut", "NetworkError", "BadRequest"}
Retried == {"TimedOut", "NetworkError"}

\* the wait without the factor of the attempt
backoff_constant(n) == DELAY_BASE

\* asyncio.sleep(delay_base * (attempt + 1))
backoff(n) == DELAY_BASE * (n + 1)

\* the loop that gives up one attempt early
may_retry_once_less(n) == n < RETRIES - 1

\* if attempt < retries
may_retry(n) == n < RETRIES

\* the loop that returns after its last attempt instead of raising
safe_reply_swallowing(outcome, deliverable, next) ==
    LET log == IF attempt = 0 THEN <<>> ELSE outcomes
        slept == IF attempt = 0 THEN <<>> ELSE waits
    IN  /\ outcomes' = Append(log, outcome)
        /\ IF outcome = "ok"
           THEN /\ sent' = Append(sent, deliverable)
                /\ pc' = next
                /\ attempt' = 0
                /\ waits' = slept
                /\ error' = error
           ELSE IF outcome \in Retried /\ may_retry(attempt)
           THEN /\ waits' = Append(slept, backoff(attempt))
                /\ attempt' = attempt + 1
                /\ UNCHANGED <<sent, pc, error>>
           ELSE /\ error' = error
                /\ pc' = next
                /\ attempt' = 0
                /\ waits' = slept
                /\ sent' = sent

\* One iteration of `for attempt in range(retries + 1)` of the running call, whose
\* reply ends as outcome: return on success; sleep and continue on a timeout or
\* a network error while attempt < retries; raise otherwise.  The log of the
\* call (outcomes, waits) starts afresh with its first attempt.
safe_reply(outcome, deliverable, next) ==
    LET log == IF attempt = 0 THEN <<>> ELSE outcomes
        slept == IF attempt = 0 THEN <<>> ELSE waits
    IN  /\ outcomes' = Append(log, outcome)
        /\ IF outcome = "ok"
           THEN /\ sent' = Append(sent, deliverable)
                /\ pc' = next
                /\ attempt' = 0
                /\ waits' = slept
                /\ error' = error
           ELSE IF outcome \in Retried /\ may_retry(attempt)
           THEN /\ waits' = Append(slept, backoff(attempt))
                /\ attempt' = attempt + 1
                /\ UNCHANGED <<sent, pc, error>>
           ELSE /\ error' = outcome
                /\ pc' = "failed"
                /\ attempt' = 0
                /\ waits' = slept
                /\ sent' = sent

Document(file_path) == [kind |-> "document", body |-> <<file_path, files[file_path]>>]

\* await safe_reply_html(update.message, message_text)
SafeReplyHtml ==
    /\ pc = "send_html"
    /\ \E outcome \in ReplyOutcomes :
         safe_reply(outcome, [kind |-> "html", body |-> message_text], "send_summary")
    /\ UNCHANGED <<layout_vars, requests, day_mode, raw_json, raw_json_prev, res, det, handler_vars,
                   export_vars, message_text>>

\* await safe_reply_document(update.message, excel_path, ...), then
\* await safe_reply_document(update.message, excel_detailed_path, ...)
SafeReplyDocument ==
    /\ pc \in {"send_summary", "send_detailed"}
    /\ \E outcome \in ReplyOutcomes :
         IF pc = "send_summary"
         THEN safe_reply(outcome, Document(excel_path), "send_detailed")
         ELSE safe_reply(outcome, Document(excel_detailed_path), "done")
    /\ UNCHANGED <<layout_vars, requests, day_mode, raw_json, raw_json_prev, res, det, handler_vars,
                   export_vars, message_text>>

\* except Exception as e: await update.message.reply_text(...), one call, not
\* retried and outside any handler
ErrorReply ==
    /\ pc = "failed"
    /\ \E outcome \in {"ok", "TimedOut"} :
         IF outcome = "ok"
         THEN /\ sent' = Append(sent, [kind |-> "error", body |-> error])
              /\ pc' = "done"
              /\ error' = error
         ELSE /\ sent' = sent
              /\ pc' = "raised"
              /\ error' = outcome
    /\ UNCHANGED <<layout_vars, requests, day_mode, raw_json, raw_json_prev, res, det, handler_vars,
                   export_vars, message_text, reply_vars>>

NextBot ==
    \/ CashflowCommandArgs
    \/ FetchPrevDayInterval
    \/ FetchSelectedDayInterval
    \/ FetchPeriodInterval
    \/ BuildTables
    \/ BuildDetailedTable
    \/ BuildTablesForDay
    \/ BuildDetailedTableForDay
    \/ ExportSummary
    \/ ExportDetailed
    \/ ExportExcelCashflow
    \/ BuildMessage
    \/ SafeReplyHtml
    \/ SafeReplyDocument
    \/ ErrorReply

SpecBot == Init /\ [][NextBot]_vars

---------------------------------------------------------------------------
WorkbookTargets == {default_path(path, caption) : path \in WorkbookPaths, caption \in DateCaptions}
AltPaths(path) == {alt_path(path, ts) : ts \in Timestamps}

\* what a finished export of content to the target path leaves behind
ExportedTo(returned, target, content) ==
    /\ returned \in DOMAIN files
    /\ files[returned] = content
    /\ IF target \in locked
       THEN /\ returned \in AltPaths(target)
            /\ files[target] = StaleSheet
       ELSE /\ returned = target
            /\ AltPaths(target) \cap DOMAIN files = {}

\* C15: when the target path is held open by another process, export_to_excel
\* and export_excel_cashflow write the content to <root>_<timestamp><ext> and
\* return that path; when the first write succeeds they return the target path
\* and create no alternate file; the returned path always holds the content.
C15_ExportFallsBackToAlternatePath ==
    /\ excel_path # NoPath => ExportedTo(excel_path, PIVOT_PATH, res)
    /\ excel_detailed_path # NoPath => ExportedTo(excel_detailed_path, DETAILED_PATH, det)
    /\ workbook_path # NoPath =>
         \E path \in WorkbookPaths, caption \in DateCaptions :
            ExportedTo(workbook_path, default_path(path, caption),
                       Workbook(raw_json_prev, raw_json, caption))
    /\ PIVOT_PATH \in locked => excel_path # NoPath
    /\ DETAILED_PATH \in locked => excel_detailed_path # NoPath
    /\ locked \cap WorkbookTargets # {} => workbook_path # NoPath

C15_Witness ==
    /\ pc = "done" /\ error = "none"
    /\ PIVOT_PATH \in locked /\ DETAILED_PATH \notin locked
    /\ excel_path = "cashflow_pivot_20251002_090001.xlsx"
    /\ files[excel_path] = res /\ files[PIVOT_PATH] = StaleSheet
    /\ excel_detailed_path = DETAILED_PATH
    /\ \E i \in DOMAIN sent : sent[i] = Document(excel_path)

---------------------------------------------------------------------------
TwoDifferentDates ==
    /\ Len(args) = 2 /\ args[1] # args[2]
    /\ parses(args[1]) /\ parses(args[2])
StartAfterEnd == TwoDifferentDates /\ fromisoformat(args[1]) > fromisoformat(args[2])

\* C16: two different dates with the start after the end are exchanged: the
\* request is not rejected, its interval runs from the earlier date to the
\* later one, and every fetch is issued with date_from not later than date_to.
C16_ReversedDatesAreSwapped ==
    /\ StartAfterEnd =>
         /\ error # "ValueError"
         /\ ~day_mode
         /\ date_from = args[2] /\ date_to = args[1]
         /\ fetched \in {<<>>, <<<<args[2], args[1]>>>>}
    /\ \A i \in DOMAIN fetched :
         fromisoformat(fetched[i][1]) <= fromisoformat(fetched[i][2])

C16_Witness ==
    /\ args = <<isoformat(3), isoformat(1)>>
    /\ fetched = <<<<isoformat(1), isoformat(3)>>>>
    /\ pc = "done" /\ error = "none"
    /\ \E i \in DOMAIN sent : sent[i].kind = "html"

UnparsableArgument == \E i \in DOMAIN args : ~parses(args[i])

\* C17: a date argument that is no date is answered with the default range and
\* a report: the command has an interval to report on, and no ValueError leaves
\* the handler.
C17_UnparsableDateFallsBackToDefault ==
    UnparsableArgument => (error # "ValueError" /\ date_from # NoDate)

C17_Witness ==
    /\ args = <<Junk>>
    /\ pc = "raised" /\ error = "ValueError"
    /\ date_from = NoDate /\ fetched = <<>> /\ sent = <<>>

AllAttemptsFailed ==
    /\ Len(outcomes) = RETRIES + 1
    /\ \A i \in DOMAIN outcomes : outcomes[i] \in Retried

\* C18: a safe_reply_* call makes at most retries+1 attempts, none after a
\* successful one, waits delay_base*(attempt+1) before each retry (2, then 4:
\* strictly increasing), and when every attempt ends in a timeout or a network
\* error it raises the error of the last attempt.
C18_BoundedRetriesWithBackoff ==
    /\ Len(outcomes) <= RETRIES + 1
    /\ \A i \in DOMAIN outcomes : i < Len(outcomes) => outcomes[i] \in Retried
    /\ Len(waits) \in {n \in {Len(outcomes) - 1, Len(outcomes)} : 0 <= n /\ n <= RETRIES}
    /\ \A i \in DOMAIN waits : waits[i] = DELAY_BASE * i
    /\ \A i, j \in DOMAIN waits : i < j => waits[i] < waits[j]
    /\ (outcomes # <<>> /\ outcomes[Len(outcomes)] = "ok") => Len(waits) = Len(outcomes) - 1
    /\ AllAttemptsFailed => pc \in {"failed", "done", "raised"}
    /\ (pc = "failed" /\ outcomes # <<>>) =>
         /\ error = outcomes[Len(outcomes)]
         /\ Len(waits) = Len(outcomes) - 1
         /\ error \in Retried => AllAttemptsFailed

C18_Witness ==
    /\ pc = "failed"
    /\ outcomes = <<"TimedOut", "NetworkError", "TimedOut">>
    /\ waits = <<2, 4>>
    /\ error = "TimedOut"
    /\ \E i \in DOMAIN sent : sent[i].kind = "html"

Deliverables == SelectSeq(sent, LAMBDA m : m.kind \in {"html", "document"})

\* the deliverables sent so far are the first ones of: message, summary
\* spreadsheet, detailed spreadsheet
InDeliveryOrder ==
    /\ Len(Deliverables) <= 3
    /\ Len(Deliverables) >= 1 => Deliverables[1].kind = "html"
    /\ Len(Deliverables) >= 2 => Deliverables[2] = Document(excel_path)
    /\ Len(Deliverables) >= 3 => Deliverables[3] = Document(excel_detailed_path)

\* C19: when every attempt to deliver the message or an attachment fails, the
\* command answers with the error reply, which carries that failure, and none
\* of the deliverables after the failed one is sent.
C19_FailedDeliveryEndsTheReport ==
    /\ InDeliveryOrder
    /\ AllAttemptsFailed =>
         /\ pc \in {"failed", "done", "raised"}
         /\ Len(Deliverables) < 3
         /\ sent[Len(sent)].kind \in {"notice", "html", "document", "error"}
         /\ pc = "failed" => sent[Len(sent)].kind # "error"
         /\ pc = "done" => sent[Len(sent)] = [kind |-> "error", body |-> outcomes[RETRIES + 1]]
         /\ pc = "raised" => \A i \in DOMAIN sent : sent[i].kind # "error"

C19_Witness ==
    /\ pc = "done" /\ AllAttemptsFailed
    /\ Len(sent) = 3
    /\ sent[2].kind = "html"
    /\ sent[3] = [kind |-> "error", body |-> "NetworkError"]
    /\ excel_detailed_path # NoPath

BalancesOnly == ResBuilt /\ Len(res) = 2

\* C20: for a statement of the opening and the closing row alone the message is
\* the block of two balance lines, and the report is delivered, not answered
\* with an error.
C20_BalancesOnlyReportIsDelivered ==
    BalancesOnly =>
      /\ error \notin {"IndexError", "TypeError"}
      /\ pc \in {"send_html", "send_summary", "send_detailed"} => Len(message_text) = 3

C20_Witness ==
    /\ ~day_mode /\ BalancesOnly
    /\ res[1].TypeLabel = LABEL_START /\ res[2].TypeLabel = LABEL_END
    /\ pc = "done" /\ error = "IndexError"
    /\ message_text = <<>>
    /\ sent = <<[kind |-> "notice", body |-> <<>>], [kind |-> "error", body |-> "IndexError"]>>

---------------------------------------------------------------------------
(* Account names in other spellings *)

MaxNameRows == 2    \* rows of a snapshot whose accounts are spelled freely

NAME_MAIN_UPPER == <<"M","A","I","N"," ","C","A","S","H"," ","R","E","G","I","S","T","E","R">>
NAME_MAIN_PADDED == <<" ","G","l","a","v","n","a","y","a"," ","k","a","s","s","a"," ","2"," ">>
NAME_TRADES_LOWER == <<"t","o","r","g","o","v","y","e"," ","k","a","s","s","y">>
NAME_TRADE_REGISTER == <<"t","r","a","d","e"," ","c","a","s","h"," ","r","e","g","i","s","t","e","r">>
NAME_BOTH == <<"M","a","i","n"," ","c","a","s","h"," ","r","e","g","i","s","t","e","r"," ","(","t","o","r","g","o","v",")">>

NamePool ==
    {Bal(NAME_MAIN_UPPER, Num(100), Num(110)), Bal(NAME_MAIN_PADDED, Num(20), Num(25)),
     Bal(NAME_TRADES_LOWER, Num(3), Num(4)), Bal(NAME_BOTH, Num(7000), Num(8000)),
     Mov(NAME_MAIN_UPPER, OPERATIONAL, "Sales", Num(50), Num(10)),
     Mov(RU_ACCOUNT_MAIN, OPERATIONAL, "Sales", Num(500), Num(200)),
     Mov(NAME_TRADE_REGISTER, OPERATIONAL, "Sales", Num(6), Num(2)),
     Mov(NAME_BOTH, FINANCE, "Loan", Num(900), Num(300)),
     Mov(NAME_BANK, OPERATIONAL, "Sales", Num(13), Num(17))}
NamePrevPool == {Bal(NAME_BOTH, Num(6000), Num(7000)), Bal(NAME_TRADES_LOWER, Num(2), Num(3))}

NameSnapshots == Snapshots(NamePool, MaxNameRows)
NamePrevSnapshots == Snapshots(NamePrevPool, 1)

FetchPrevDayNamed ==
    /\ pc = "fetch_prev"
    /\ \E snap \in NamePrevSnapshots : raw_json_prev' = snap
    /\ pc' = "fetch_day"
    /\ UNCHANGED <<layout_vars, requests, day_mode, raw_json, res, det, error, handler_vars, delivery_vars>>

FetchSelectedDayNamed ==
    /\ pc = "fetch_day"
    /\ \E snap \in NameSnapshots : raw_json' = snap
    /\ pc' = "build_res"
    /\ UNCHANGED <<layout_vars, requests, day_mode, raw_json_prev, res, det, error, handler_vars, delivery_vars>>

FetchPeriodNamed ==
    /\ pc = "fetch_period"
    /\ \E snap \in NameSnapshots : raw_json' = snap
    /\ pc' = "build_res"
    /\ UNCHANGED <<layout_vars, requests, day_mode, raw_json_prev, res, det, error, handler_vars, delivery_vars>>

NextNames ==
    \/ CashflowCommand
    \/ FetchPrevDayNamed
    \/ FetchSelectedDayNamed
    \/ FetchPeriodNamed
    \/ BuildTables
    \/ BuildDetailedTable
    \/ BuildTablesForDay
    \/ BuildDetailedTableForDay

SpecNames == Init /\ [][NextNames]_vars

\* frag occurs in name, letters compared without case
HasFragment(name, frag) ==
    \E k \in 0 .. (Len(name) - Len(frag)) : lower(SubSeq(name, k + 1, k + Len(frag))) = frag

HasMainFragment(name) == HasFragment(name, FRAG_MAIN_RU) \/ HasFragment(name, FRAG_MAIN_EN)
HasTradesFragment(name) == HasFragment(name, FRAG_TRADES_RU) \/ HasFragment(name, FRAG_TRADES_EN)

\* the account a name stands for: a main fragment decides first
Bucket(name) ==
    IF HasMainFragment(name) THEN RU_ACCOUNT_MAIN
    ELSE IF HasTradesFragment(name) THEN RU_ACCOUNT_TRADES
    ELSE name

Canon(raw) ==
    [columns |-> raw.columns,
     data |-> [i \in DOMAIN raw.data |-> [raw.data[i] EXCEPT ![ACC_COL] = Bucket(@)]]]

FetchedRows == {raw_json.data[i] : i \in DOMAIN raw_json.data}
                 \cup {raw_json_prev.data[i] : i \in DOMAIN raw_json_prev.data}

\* C22: a name with a main fragment, in any case and with anything around it,
\* is the main account; a name with a trades fragment and no main fragment is
\* the trades account; so every statement is the one built from the rows with
\* each name replaced by its account, and a name with both fragments is counted
\* once, under the main account.
C22_NamesMatchedByFragment ==
    /\ \A r \in FetchedRows :
         /\ HasMainFragment(r[ACC_COL]) => AccountOf(r) = RU_ACCOUNT_MAIN
         /\ (HasTradesFragment(r[ACC_COL]) /\ ~HasMainFragment(r[ACC_COL]))
               => AccountOf(r) = RU_ACCOUNT_TRADES
    /\ ResBuilt =>
         res = IF day_mode
               THEN build_cashflow_tables_for_day(Canon(raw_json), Canon(raw_json_prev))
               ELSE build_cashflow_tables(Canon(raw_json))
    /\ DetBuilt =>
         det = IF day_mode
               THEN build_cashflow_detailed_table_for_day(Canon(raw_json), Canon(raw_json_prev))
               ELSE build_cashflow_detailed_table(Canon(raw_json))

C22_Witness ==
    /\ ~day_mode /\ DetBuilt
    /\ FetchedRows = {Mov(NAME_MAIN_UPPER, OPERATIONAL, "Sales", Num(50), Num(10)),
                      Mov(RU_ACCOUNT_MAIN, OPERATIONAL, "Sales", Num(500), Num(200))}
    /\ \E i \in DOMAIN res : res[i].Level1 = CAT_VYRUCHKA /\ res[i].Main = Num(550)

---------------------------------------------------------------------------
NoCategoryField == raw_json.data # <<>> /\ CAT_COL \notin raw_json.columns

\* C24: in the period summary statement the rows without a category are the
\* balance rows: their StartBalance.Money / FinalBalance.Money make the opening
\* and the closing row, and they give no movement row; also when no row carries
\* the category field, and when there is no movement row.
C24_RowsWithoutCategoryAreBalanceRows ==
    (~day_mode /\ ResBuilt) =>
      /\ \A acc \in BothAccounts :
           /\ Opening(res, acc) = Num(Sigma(BalanceRows(raw_json, acc), START_COL))
           /\ Closing(res, acc) = Num(Sigma(BalanceRows(raw_json, acc), FINAL_COL))
      /\ (\A i \in DOMAIN raw_json.data : IsBalance(raw_json.data[i])) => Len(res) = 2

\* the same, for the responses that carry the category field
C24_HoldsWithCategoryField ==
    (~day_mode /\ ResBuilt /\ CAT_COL \in raw_json.columns /\ START_COL \in raw_json.columns
       /\ FINAL_COL \in raw_json.columns /\ ACC_COL \in raw_json.columns) =>
      /\ \A acc \in BothAccounts :
           /\ Opening(res, acc) = Num(Sigma(BalanceRows(raw_json, acc), START_COL))
           /\ Closing(res, acc) = Num(Sigma(BalanceRows(raw_json, acc), FINAL_COL))
      /\ (\A i \in DOMAIN raw_json.data : IsBalance(raw_json.data[i])) => Len(res) = 2

\* one balance row 1000 / 1200 of the main account, no category field: the
\* statement opens and closes with 0
C24_Witness ==
    /\ ~day_mode /\ ResBuilt /\ NoCategoryField
    /\ Len(raw_json.data) = 1
    /\ raw_json.data[1][ACC_COL] = RU_ACCOUNT_MAIN
    /\ raw_json.data[1][START_COL] = Num(1000) /\ raw_json.data[1][FINAL_COL] = Num(1200)
    /\ raw_json.data[1][TYPE_COL] = None
    /\ Opening(res, RU_ACCOUNT_MAIN) = Num(0) /\ Closing(res, RU_ACCOUNT_MAIN) = Num(0)

---------------------------------------------------------------------------
\* in the day summary statement every category has its incoming row followed
\* by its outgoing row (the two frames of calculate_daily_movement have the
\* same keys)
IsOutgoingRow(stmt, i) ==
    /\ stmt[i].Level1 # ""
    /\ stmt[i - 1].Level1 = stmt[i].Level1 /\ stmt[i - 1].TypeLabel = stmt[i].TypeLabel
IsIncomingRow(stmt, i) == stmt[i].Level1 # "" /\ ~IsOutgoingRow(stmt, i)

NonNegativeAmounts(raw) ==
    \A i \in DOMAIN raw.data : \A c \in {IN_COL, OUT_COL} :
        raw.data[i][c] = NaN \/ raw.data[i][c][1] >= 0

\* C25: in the day summary statement, the amounts of both snapshots being
\* non-negative, every incoming row is >= 0 and every outgoing row <= 0 for
\* both accounts, also for a key of the previous snapshot alone.
C25_DayRowsKeepTheirSign ==
    (day_mode /\ ResBuilt /\ NonNegativeAmounts(raw_json) /\ NonNegativeAmounts(raw_json_prev)) =>
      \A i \in 2 .. (Len(res) - 1) : \A acc \in BothAccounts :
        /\ IsIncomingRow(res, i) => Cell(res[i], acc)[1] >= 0
        /\ IsOutgoingRow(res, i) => Cell(res[i], acc)[1] <= 0

\* the previous day has sales 300 / 60 of the main account, the selected day
\* none: the incoming row shows -300, the outgoing row 60
C25_Witness ==
    /\ day_mode /\ ResBuilt
    /\ \E i \in DOMAIN raw_json_prev.data :
          raw_json_prev.data[i] = Mov(RU_ACCOUNT_MAIN, OPERATIONAL, "Sales", Num(300), Num(60))
    /\ \A i \in DOMAIN raw_json.data : raw_json.data[i][CAT_COL] # "Sales"
    /\ \E i \in 2 .. (Len(res) - 2) :
          /\ res[i].Level1 = CAT_VYRUCHKA /\ IsIncomingRow(res, i)
          /\ res[i].Main = Num(0 - 300)
          /\ IsOutgoingRow(res, i + 1) /\ res[i + 1].Main = Num(60)

---------------------------------------------------------------------------
SameRows(a, b) ==
    /\ Len(a) = Len(b)
    /\ \A i \in DOMAIN a :
         /\ a[i].TypeLabel = b[i].TypeLabel /\ a[i].Level1 = b[i].Level1
         /\ a[i].Main = b[i].Main /\ a[i].Trades = b[i].Trades

\* C29: for one pair of snapshots the summary and the detailed day statement
\* have the same rows in the same order with the same value for each account.
C29_DayBuildersAgree ==
    (day_mode /\ ResBuilt /\ DetBuilt) => SameRows(res, det)

\* the two builders do agree when the previous day has no movement row and the
\* selected day has one
C29_AgreeWithoutPreviousMovement ==
    (day_mode /\ DetBuilt
       /\ (\A i \in DOMAIN raw_json_prev.data : ~IsMovement(raw_json_prev.data[i]))
       /\ \A j \in DOMAIN raw_json.data :
             (IsMovement(raw_json.data[j]) /\ IsKnown(raw_json.data[j]))
                => raw_json.data[j][TYPE_COL] \in ShownTypes)
      => SameRows(res, det)

\* sales of the main account 300 / 60 on the previous day and 450 / 100 on the
\* selected day: the summary statement shows 150 / -40, the detailed one 450 / -100
C29_Witness ==
    /\ day_mode /\ DetBuilt
    /\ raw_json_prev.data = <<Mov(RU_ACCOUNT_MAIN, OPERATIONAL, "Sales", Num(300), Num(60))>>
    /\ raw_json.data = <<Mov(RU_ACCOUNT_MAIN, OPERATIONAL, "Sales", Num(450), Num(100))>>
    /\ Len(res) = 5 /\ Len(det) = 5
    /\ res[3].Level1 = CAT_VYRUCHKA /\ res[3].Main = Num(150) /\ res[4].Main = Num(0 - 40)
    /\ det[3].Level1 = CAT_VYRUCHKA /\ det[3].Main = Num(450) /\ det[4].Main = Num(0 - 100)
    /\ Closing(res, RU_ACCOUNT_MAIN) = Num(110) /\ Closing(det, RU_ACCOUNT_MAIN) = Num(350)

---------------------------------------------------------------------------
RECURSIVE ShownSum(_, _, _)
\* the sum of an account's values over the movement rows i .. Len(stmt) - 1 of a
\* statement (section headers, opening and closing rows are not movement rows)
ShownSum(stmt, acc, i) ==
    IF i >= Len(stmt) THEN 0
    ELSE (IF stmt[i].Level1 # "" /\ Cell(stmt[i], acc) # NaN THEN Cell(stmt[i], acc)[1] ELSE 0)
           + ShownSum(stmt, acc, i + 1)

\* C30: in the summary day statement the closing balance of each account is its
\* opening balance plus the sum of the account's values over the movement rows
\* the statement shows; no movement changes the closing without being shown.
C30_ClosingIsOpeningPlusShownRows ==
    (day_mode /\ ResBuilt) =>
      \A acc \in BothAccounts :
        Closing(res, acc) = Num(Opening(res, acc)[1] + ShownSum(res, acc, 2))

\* the equation does hold when every movement row of both snapshots has one of
\* the two types the statement shows
C30_HoldsForShownTypes ==
    (day_mode /\ ResBuilt
       /\ \A raw \in {raw_json, raw_json_prev} : \A j \in DOMAIN raw.data :
            (IsMovement(raw.data[j]) /\ IsKnown(raw.data[j]))
               => raw.data[j][TYPE_COL] \in ShownTypes)
      => C30_ClosingIsOpeningPlusShownRows

\* a movement of the trades account of type INVESTMENT (9 in, 4 out) beside a
\* shown movement of the main account: the statement shows no row for it and the
\* closing of the trades account is 5 above its opening
C30_Witness ==
    /\ day_mode /\ ResBuilt
    /\ raw_json_prev.data = <<>>
    /\ Len(raw_json.data) = 2
    /\ \E i, j \in DOMAIN raw_json.data :
         /\ raw_json.data[i] = Mov(RU_ACCOUNT_MAIN, OPERATIONAL, "Sales", Num(450), Num(100))
         /\ raw_json.data[j] = Mov(RU_ACCOUNT_TRADES, INVESTMENT, "Sales", Num(9), Num(4))
    /\ ShownSum(res, RU_ACCOUNT_MAIN, 2) = 350
    /\ ShownSum(res, RU_ACCOUNT_TRADES, 2) = 0
    /\ Opening(res, RU_ACCOUNT_TRADES) = Num(0)
    /\ Closing(res, RU_ACCOUNT_TRADES) = Num(5)

---------------------------------------------------------------------------
\* the "DateTime.DateTyped" filter of the payload of fetch_olap_transactions for
\* one recorded call <<date_from, date_to>>
DateTyped_filter(call) ==
    [filterType |-> "DateRange", from |-> call[1], to |-> call[2],
     includeLow |-> TRUE, includeHigh |-> TRUE]

\* the calendar dates a DateRange filter asks for
DatesRequested(filter) ==
    {d \in 0 .. (MaxDate + 2) :
        /\ \/ fromisoformat(filter.from) < d
           \/ filter.includeLow /\ fromisoformat(filter.from) = d
        /\ \/ d < fromisoformat(filter.to)
           \/ filter.includeHigh /\ d = fromisoformat(filter.to)}

\* both fetches of the day mode have been made
BothDayFetchesMade == day_mode /\ Len(fetched) = 2

\* C26: in the day mode the previous-day fetch asks for the half-open interval
\* [day - 1, day) and the selected-day fetch for [day, day + 1): each asks for one
\* calendar date and no date is asked for by both.
C26_DayFetchesAreHalfOpen ==
    BothDayFetchesMade =>
      LET day == fromisoformat(date_to)
      IN  /\ DatesRequested(DateTyped_filter(fetched[1])) = {day - 1}
          /\ DatesRequested(DateTyped_filter(fetched[2])) = {day}
          /\ DatesRequested(DateTyped_filter(fetched[1]))
               \cap DatesRequested(DateTyped_filter(fetched[2])) = {}

\* the bounds handed to the two fetches are the consecutive days the comments of
\* generate_report name
C26_BoundsAreConsecutiveDays ==
    BothDayFetchesMade =>
      LET day == fromisoformat(date_to)
      IN  /\ fetched[1] = <<isoformat(day - 1), isoformat(day)>>
          /\ fetched[2] = <<isoformat(day), isoformat(day + 1)>>

\* the report of day 2: the first fetch asks for days 1 and 2, the second for
\* days 2 and 3
C26_Witness ==
    /\ BothDayFetchesMade
    /\ args = <<isoformat(2)>>
    /\ fetched = <<<<isoformat(1), isoformat(2)>>, <<isoformat(2), isoformat(3)>>>>
    /\ DatesRequested(DateTyped_filter(fetched[1])) = {1, 2}
    /\ DatesRequested(DateTyped_filter(fetched[2])) = {2, 3}

---------------------------------------------------------------------------
(* Two /cashflow commands handled at once.  cashflow_command is a coroutine: it   *)
(* hands generate_report to a worker thread (asyncio.to_thread) and awaits every  *)
(* reply, so the steps of two handlers interleave at each of these points.  The  *)
(* locals of a handler are its own; the directory the exports write to (files)   *)
(* is the process's.                                                             *)

MaxTwoRows == 1     \* rows of the snapshot a handler fetches

TwoPool ==
    {Bal(RU_ACCOUNT_MAIN, Num(1000), Num(1200)),
     Mov(RU_ACCOUNT_MAIN, OPERATIONAL, "Sales", Num(500), Num(200)),
     Mov(RU_ACCOUNT_TRADES, OPERATIONAL, "Rent", Num(0), Num(70))}
TwoSnapshots == Snapshots(TwoPool, MaxTwoRows)

\* the period both commands ask for
TwoFrom == isoformat(1)
TwoTo == isoformat(2)

Advance(r, fields) == requests' = [requests EXCEPT ![r] = fields @@ requests[r]]

\* bot.py 36-106: the handler is called and starts generate_report in a thread
ReceiveCommand(r) ==
    /\ requests[r].pc = "idle"
    /\ Advance(r, [pc |-> "fetch"])
    /\ UNCHANGED <<layout_vars, pc, day_mode, raw_json, raw_json_prev, res, det, error, handler_vars,
                   delivery_vars>>

\* bot.py 98-100: the fetch of the period and the two builders, on the thread's
\* own locals
FetchAndBuild(r) ==
    /\ requests[r].pc = "fetch"
    /\ \/ \E snap \in TwoSnapshots :
            Advance(r, [pc |-> "export_sum", raw_json |-> snap,
                        res |-> build_cashflow_tables(snap),
                        det |-> build_cashflow_detailed_table(snap)])
       \/ Advance(r, [pc |-> "failed", error |-> "HTTPError"])
    /\ UNCHANGED <<layout_vars, pc, day_mode, raw_json, raw_json_prev, res, det, error, handler_vars,
                   delivery_vars>>

\* bot.py 101: excel_sum = export_to_excel(res), to the default path
ExportSummaryOf(r) ==
    /\ requests[r].pc = "export_sum"
    /\ \E fault \in WriteFaults, ts \in Timestamps :
         LET out == export_to_excel(held_open(files, PIVOT_PATH, fault), requests[r].res,
                                    PIVOT_PATH, fault, ts)
         IN  /\ files' = out.files
             /\ locked' = IF fault = "locked" THEN locked \cup {PIVOT_PATH} ELSE locked
             /\ Advance(r, [pc |-> IF out.error = "none" THEN "export_det" ELSE "failed",
                            excel_path |-> out.path, error |-> out.error])
    /\ UNCHANGED <<layout_vars, pc, day_mode, raw_json, raw_json_prev, res, det, error, handler_vars,
                   workbook_path, excel_path, excel_detailed_path, message_text, reply_vars,
                   sent>>

\* bot.py 102: excel_det = export_to_excel(det, path="cashflow_detailed.xlsx")
ExportDetailedOf(r) ==
    /\ requests[r].pc = "export_det"
    /\ \E fault \in WriteFaults, ts \in Timestamps :
         LET out == export_to_excel(held_open(files, DETAILED_PATH, fault), requests[r].det,
                                    DETAILED_PATH, fault, ts)
         IN  /\ files' = out.files
             /\ locked' = IF fault = "locked" THEN locked \cup {DETAILED_PATH} ELSE locked
             /\ Advance(r, [pc |-> IF out.error = "none" THEN "message" ELSE "failed",
                            excel_detailed_path |-> out.path, error |-> out.error])
    /\ UNCHANGED <<layout_vars, pc, day_mode, raw_json, raw_json_prev, res, det, error, handler_vars,
                   workbook_path, excel_path, excel_detailed_path, message_text, reply_vars,
                   sent>>

\* bot.py 217-226: the message is built from the handler's statement and sent;
\* outcome is how safe_reply_html ends after its retries
ReplyHtmlOf(r) ==
    /\ requests[r].pc = "message"
    /\ LET m == build_message_from_df(requests[r].res, caption_of(FALSE, TwoFrom, TwoTo))
       IN  IF m.error # "none"
           THEN Advance(r, [pc |-> "failed", error |-> m.error])
           ELSE \E outcome \in {"ok", "BadRequest"} :
                  IF outcome = "ok"
                  THEN Advance(r, [pc |-> "send_summary",
                                   sent |-> Append(requests[r].sent,
                                                   [kind |-> "html", body |-> m.lines])])
                  ELSE Advance(r, [pc |-> "failed", error |-> outcome])
    /\ UNCHANGED <<layout_vars, pc, day_mode, raw_json, raw_json_prev, res, det, error, handler_vars,
                   delivery_vars>>

\* bot.py 229-230 and 262: safe_reply_document opens the file at the path the
\* export returned and sends what the file holds at that moment
ReplyDocumentOf(r) ==
    /\ requests[r].pc \in {"send_summary", "send_detailed"}
    /\ LET file_path == IF requests[r].pc = "send_summary" THEN requests[r].excel_path
                        ELSE requests[r].excel_detailed_path
           next == IF requests[r].pc = "send_summary" THEN "send_detailed" ELSE "done"
       IN  \E outcome \in {"ok", "BadRequest"} :
             IF outcome = "ok"
             THEN Advance(r, [pc |-> next,
                              sent |-> Append(requests[r].sent, Document(file_path))])
             ELSE Advance(r, [pc |-> "failed", error |-> outcome])
    /\ UNCHANGED <<layout_vars, pc, day_mode, raw_json, raw_json_prev, res, det, error, handler_vars,
                   delivery_vars>>

\* bot.py 231-232
ErrorReplyOf(r) ==
    /\ requests[r].pc = "failed"
    /\ \E outcome \in {"ok", "TimedOut"} :
         IF outcome = "ok"
         THEN Advance(r, [pc |-> "done",
                          sent |-> Append(requests[r].sent,
                                          [kind |-> "error", body |-> requests[r].error])])
         ELSE Advance(r, [pc |-> "raised", error |-> outcome])
    /\ UNCHANGED <<layout_vars, pc, day_mode, raw_json, raw_json_prev, res, det, error, handler_vars,
                   delivery_vars>>

NextTwo ==
    \/ \E r \in Requests : ReceiveCommand(r)
    \/ \E r \in Requests : FetchAndBuild(r)
    \/ \E r \in Requests : ExportSummaryOf(r)
    \/ \E r \in Requests : ExportDetailedOf(r)
    \/ \E r \in Requests : ReplyHtmlOf(r)
    \/ \E r \in Requests : ReplyDocumentOf(r)
    \/ \E r \in Requests : ErrorReplyOf(r)

SpecTwo == Init /\ [][NextTwo]_vars

\* the documents a handler has sent, as <<path, content>>
DocumentsOf(r) ==
    {requests[r].sent[i].body : i \in {j \in DOMAIN requests[r].sent :
                                          requests[r].sent[j].kind = "document"}}

OwnStatements(r) ==
    {<<requests[r].excel_path, requests[r].res>>,
     <<requests[r].excel_detailed_path, requests[r].det>>}

---------------------------------------------------------------------------
(* build_excel_cashflow_table and build_full_cashflow_tree as functions of two   *)
(* snapshots: the first is applied to the snapshots, the second to its result    *)

MaxLayoutRows == 2      \* rows of the current snapshot
MaxLayoutPrevRows == 1  \* rows of the previous snapshot

LayoutPool ==
    {Bal(RU_ACCOUNT_MAIN, Num(1000), Num(1200)), Bal(RU_ACCOUNT_TRADES, Num(30), Num(40)),
     Mov(RU_ACCOUNT_MAIN, OPERATIONAL, "Sales", Num(500), Num(200)),
     Mov(RU_ACCOUNT_TRADES, OPERATIONAL, "Sales", Num(80), Num(5)),
     Mov(RU_ACCOUNT_TRADES, OPERATIONAL, CAT_VYRUCHKA, Num(7), NaN),
     Mov(RU_ACCOUNT_MAIN, OPERATIONAL, "Internal transfer", Num(60), Num(0)),
     Mov(RU_ACCOUNT_TRADES, OPERATIONAL, "Internal transfer", Num(0), Num(60)),
     Mov(RU_ACCOUNT_MAIN, OPERATIONAL, "Rent", Num(0), Num(70)),
     Mov(RU_ACCOUNT_MAIN, FINANCE, "Loan", Num(300), Num(100)),
     Mov(NAME_BANK, OPERATIONAL, "Sales", Num(11), Num(1))}
LayoutPrevPool ==
    {Bal(RU_ACCOUNT_MAIN, Num(900), Num(1000)), Bal(RU_ACCOUNT_TRADES, Num(25), Num(30)),
     Row(RU_ACCOUNT_TRADES, OPERATIONAL, "Sales", Num(40), Num(0), NaN, Num(15))}
LayoutSnapshots == Snapshots(LayoutPool, MaxLayoutRows)
LayoutPrevSnapshots == Snapshots(LayoutPrevPool, MaxLayoutPrevRows)

\* table = build_excel_cashflow_table(json_prev, json_curr)
BuildExcelCashflowTable ==
    /\ pc = "idle"
    /\ \E prev \in LayoutPrevSnapshots, curr \in LayoutSnapshots :
         /\ raw_json_prev' = prev
         /\ raw_json' = curr
         /\ table' = build_excel_cashflow_table(prev, curr)
    /\ pc' = "table"
    /\ UNCHANGED <<tree_text, requests, day_mode, res, det, error, handler_vars, delivery_vars>>

\* build_full_cashflow_tree(table, date_str)
BuildFullCashflowTree ==
    /\ pc = "table"
    /\ \E date_str \in DateCaptions : tree_text' = build_full_cashflow_tree(table, date_str)
    /\ pc' = "tree"
    /\ UNCHANGED <<table, requests, day_mode, raw_json, raw_json_prev, res, det, error,
                   handler_vars, delivery_vars>>

NextLayout ==
    \/ BuildExcelCashflowTable
    \/ BuildFullCashflowTree

SpecLayout == Init /\ [][NextLayout]_vars

TableBuilt == table # <<>>
TreeBuilt == tree_text # <<>>

\* the movement rows of the current snapshot that belong to an account
MovementsOf(acc) == SelectSeq(raw_json.data, LAMBDA r : IsMovement(r) /\ AccountOf(r) = acc)
RevenueOf(acc) ==
    SelectSeq(MovementsOf(acc), LAMBDA r : CATEGORY_RU_MAP(r[CAT_COL]) = CAT_VYRUCHKA)
TransferOf(acc) ==
    SelectSeq(MovementsOf(acc), LAMBDA r : CATEGORY_RU_MAP(r[CAT_COL]) = CAT_PEREMESHCHENIE)
\* the opening value of an account: the final balance of the previous snapshot
OpeningOf(acc) == Sigma(BalanceRows(raw_json_prev, acc), FINAL_COL)

TotalsAreSums ==
    \A i \in DOMAIN table :
        /\ table[i].O = table[i].E + table[i].J /\ table[i].P = table[i].G + table[i].L
        /\ table[i].Q = table[i].H + table[i].M /\ table[i].R = table[i].I + table[i].N

\* C27: in the table of build_excel_cashflow_table the columns E, G, H, I carry
\* the values of the trades account and J, L, M, N those of the main account, as
\* the docstring of the function says, and O, P, Q, R carry their sums.
C27_ColumnsFollowDocstring ==
    TableBuilt =>
      /\ table[1].E = OpeningOf(RU_ACCOUNT_TRADES)
      /\ table[1].J = OpeningOf(RU_ACCOUNT_MAIN)
      /\ table[3].G = Sigma(RevenueOf(RU_ACCOUNT_TRADES), IN_COL)
      /\ table[2].H = Sigma(TransferOf(RU_ACCOUNT_TRADES), OUT_COL)
      /\ table[2].L = Sigma(TransferOf(RU_ACCOUNT_MAIN), IN_COL)
      /\ TotalsAreSums

\* what the table does carry: the main account in E, G, H, I (the group header
\* of the exported sheet agrees), the trades account in J, L, M, N, and the sums
C27_ColumnsAsWritten ==
    TableBuilt =>
      /\ table[1].E = OpeningOf(RU_ACCOUNT_MAIN)
      /\ table[1].J = OpeningOf(RU_ACCOUNT_TRADES)
      /\ table[3].L = Sigma(RevenueOf(RU_ACCOUNT_TRADES), IN_COL)
      /\ table[2].M = Sigma(TransferOf(RU_ACCOUNT_TRADES), OUT_COL)
      /\ table[2].G = Sigma(TransferOf(RU_ACCOUNT_MAIN), IN_COL)
      /\ TotalsAreSums
      /\ GROUP_HEADERS[1] = [value |-> RU_ACCOUNT_MAIN, first |-> "E", last |-> "I"]

\* the main account opens at 1000 and the trades account sold for 80: E of the
\* balances row is 1000 and J is 0, L of the revenue row is 80 and G is 0
C27_Witness ==
    /\ TableBuilt
    /\ raw_json_prev.data = <<Bal(RU_ACCOUNT_MAIN, Num(900), Num(1000))>>
    /\ raw_json.data = <<Mov(RU_ACCOUNT_TRADES, OPERATIONAL, "Sales", Num(80), Num(5))>>
    /\ table[1].E = 1000 /\ table[1].J = 0 /\ table[1].O = 1000
    /\ table[3].L = 80 /\ table[3].G = 0 /\ table[3].P = 80

---------------------------------------------------------------------------
\* the rows of the table that stand for a category
CategoryRows == {i \in DOMAIN table : table[i].Level1 # ""}
InColumn(acc) == IF acc = RU_ACCOUNT_MAIN THEN "G" ELSE "L"
OutColumn(acc) == IF acc = RU_ACCOUNT_MAIN THEN "H" ELSE "M"

RECURSIVE ColumnSum(_, _)
ColumnSum(rows, col) ==
    IF rows = {} THEN 0
    ELSE LET i == CHOOSE x \in rows : TRUE IN table[i][col] + ColumnSum(rows \ {i}, col)

\* C28: no movement amount of the current snapshot is lost in the table of
\* build_excel_cashflow_table: for each account the incoming and the outgoing
\* amounts of its movement rows, whatever their category, add up to those of the
\* category rows, and so to those of the total row.
C28_NoMovementAmountLost ==
    TableBuilt =>
      /\ \A acc \in BothAccounts :
           /\ ColumnSum(CategoryRows, InColumn(acc)) = Sigma(MovementsOf(acc), IN_COL)
           /\ ColumnSum(CategoryRows, OutColumn(acc)) = Sigma(MovementsOf(acc), OUT_COL)
      /\ table[Len(table)].P = Sigma(MovementsOf(RU_ACCOUNT_MAIN), IN_COL)
                                + Sigma(MovementsOf(RU_ACCOUNT_TRADES), IN_COL)
      /\ table[Len(table)].Q = Sigma(MovementsOf(RU_ACCOUNT_MAIN), OUT_COL)
                                + Sigma(MovementsOf(RU_ACCOUNT_TRADES), OUT_COL)

\* the amounts the table does carry: the incoming revenue of the trades account,
\* the transfer into the main account and out of the trades account; every
\* other incoming or outgoing cell of a category row of these snapshots is 0
C28_AmountsCarried ==
    TableBuilt =>
      /\ ColumnSum(CategoryRows, "L") = Sigma(RevenueOf(RU_ACCOUNT_TRADES), IN_COL)
      /\ ColumnSum(CategoryRows, "G") = Sigma(TransferOf(RU_ACCOUNT_MAIN), IN_COL)
      /\ ColumnSum(CategoryRows, "M") = Sigma(TransferOf(RU_ACCOUNT_TRADES), OUT_COL)
      /\ ColumnSum(CategoryRows, "H") = 0

\* sales of 500 / 200 and a loan of 300 / 100 of the main account: every
\* incoming and outgoing cell of the table is 0
C28_Witness ==
    /\ TableBuilt
    /\ Len(raw_json.data) = 2
    /\ \E i, j \in DOMAIN raw_json.data :
         /\ raw_json.data[i] = Mov(RU_ACCOUNT_MAIN, OPERATIONAL, "Sales", Num(500), Num(200))
         /\ raw_json.data[j] = Mov(RU_ACCOUNT_MAIN, FINANCE, "Loan", Num(300), Num(100))
    /\ Sigma(MovementsOf(RU_ACCOUNT_MAIN), IN_COL) = 800
    /\ ColumnSum(CategoryRows, "G") = 0 /\ ColumnSum(CategoryRows, "H") = 0
    /\ table[Len(table)].P = 0 /\ table[Len(table)].Q = 0

---------------------------------------------------------------------------
\* the lines of the text below the name of an account, up to the next name
CashSection(text, cash_name) ==
    LET h == CHOOSE k \in DOMAIN text : text[k].head = cash_name
        later == {k \in DOMAIN text : k > h /\ text[k].head # <<>>}
        e == IF later = {} THEN Len(text) + 1
             ELSE CHOOSE k \in later : \A m \in later : k <= m
    IN  SubSeq(text, h + 1, e - 1)

\* a row of the table is in the lines of an account: a line of its last label, as
\* deep as the row has labels, above the four leaves with the row's values
RowRendered(section, row, cash_name) ==
    LET path == row_path(row)
    IN  \E k \in DOMAIN section :
          /\ section[k].key = path[Len(path)]
          /\ section[k].val = NaN
          /\ Len(section[k].prefix) = Len(path)
          /\ k + 4 <= Len(section)
          /\ \A m \in 1 .. 4 :
               /\ section[k + m].key = METRIC_LABELS[m]
               /\ section[k + m].val = fmt_2f(row[cash_columns(cash_name)[m]])

\* C23: the text of build_full_cashflow_tree holds, for each of the two accounts,
\* every row of the table as a node under its labels with the four leaves
\* (opening, inflow, outflow, closing) in this order; no row is missing.
C23_EveryRowIsRendered ==
    TreeBuilt =>
      \A c \in DOMAIN cash_names : \A i \in DOMAIN table :
          RowRendered(CashSection(tree_text, cash_names[c]), table[i], cash_names[c])

\* the row of the total is rendered, for both accounts
C23_TotalRowIsRendered ==
    TreeBuilt =>
      \A c \in DOMAIN cash_names :
          RowRendered(CashSection(tree_text, cash_names[c]), table[Len(table)], cash_names[c])

\* a table of ten rows whose balances row holds 1000 for the main account: the
\* lines of each account are the node of the total and its four leaves
C23_Witness ==
    /\ TreeBuilt
    /\ Len(table) = 10 /\ table[1].TypeLabel = LABEL_BALANCES /\ table[1].E = 1000
    /\ table[3].L = 80
    /\ \A c \in DOMAIN cash_names :
         LET section == CashSection(tree_text, cash_names[c])
         IN  /\ Len(section) = 5
             /\ section[1].key = LABEL_TOTAL
             /\ \A k \in DOMAIN section : section[k].key \notin {LABEL_BALANCES, CAT_VYRUCHKA}

=============================================================================
